---- MODULE Spec2Model ----
(***************************************************************************)
(* A model of the type-tree core of llvm-memprof's field access tool:      *)
(* TypeTree / TypeTree::Node (src/src/type_tree.h, src/src/type_tree.cc),  *)
(* TypeTreeStore (src/src/histogram_builder.cc), the tree builder of       *)
(* DwarfTypeResolver (src/src/type_resolver.cc) and the type index of      *)
(* DwarfMetadataFetcher (src/src/dwarf_metadata_fetcher.cc) it reads.      *)
(*                                                                         *)
(* A string that the code inspects character by character (a type name) is *)
(* a sequence of one-character strings; a string that is only compared for *)
(* equality (a field name, a call stack key) is a TLA+ string.  Sizes and  *)
(* offsets are in bits unless the name says bytes, as in the source.       *)
(***************************************************************************)
EXTENDS Integers, Sequences, FiniteSets, TLC

VARIABLES
    pc,          \* which step of the scenario under check comes next
    store,       \* TypeTreeStore::callstack_to_type_tree_
    lastCall,    \* the last store call: operation, arguments, path taken, status
    firstName,   \* per call stack, the root type name of the first tree stored
    inserts,     \* number of store calls made so far
    feedA,       \* the sites of a profile, in the order storeA is fed
    feedB,       \* the same sites in the order storeB is fed
    storeA,      \* a store fed in the order of feedA
    storeB,      \* a store fed in the order of feedB
    fed,         \* number of sites fed to storeA and to storeB so far
    tree,        \* the TypeTree under construction / verification / recording
    other,       \* a second TypeTree (the argument of MergeCounts)
    result,      \* the value returned by the last call on tree
    index,       \* the debug index: type name -> TypeData
    hist,        \* the histogram handed to RecordAccessHistogram
    prev,        \* tree as it was before the last call on it
    ops,         \* number of recording and merging calls made on tree
    arg,         \* the arguments of the last call, where hist does not hold them
    profile,     \* the allocation sites of the memprof profile, in reading order
    site,        \* number of sites BuildHistogram has processed
    stats,       \* BuildHistogram's Statistics
    config,      \* the filters and flags of the LocalHistogramBuilder
    step,        \* what the last iteration of BuildHistogram did with its site
    cache,       \* DwarfMetadataFetcher::cache_: type name -> pointer to a TypeData
    epoch,       \* number of Fetch calls made so far
    fetched,     \* the last Fetch call: entry point, binaries in iteration order, status
    wk,          \* per parser worker: its position in VisitChildDIE, its DIE, what contains() told it
    dies,        \* the DIEs below the unit DIEs that no worker has taken yet
    mutex,       \* RootTypeData::m: the worker holding it, or none
    root_types   \* root_space->types: name -> number of objects stored under it so far

vars == <<pc, store, lastCall, firstName, inserts, feedA, feedB, storeA, storeB, fed,
          tree, other, result, index, hist, prev, ops, arg,
          profile, site, stats, config, step,
          cache, epoch, fetched,
          wk, dies, mutex, root_types>>

storeVars == <<store, lastCall, firstName, inserts>>
orderVars == <<feedA, feedB, storeA, storeB, fed>>
treeVars  == <<tree, other, result, index, hist, prev, ops, arg>>
buildVars == <<profile, site, stats, config, step>>
fetchVars == <<cache, epoch, fetched>>
parseVars == <<wk, dies, mutex, root_types>>

(***************************************************************************)
(* Bounds of the model.                                                    *)
(***************************************************************************)
MaxInserts == 2      \* store calls per behaviour
MaxCount   == 1      \* largest count in one histogram bucket
MaxSites   == 2      \* sites fed to the two stores of the ordering scenario
MaxFields  == 2      \* members declared in the record A of a debug index
MaxOps     == 2      \* recording and merging calls made on one tree
MaxOffset  == 33     \* largest byte offset of a single recorded access
MaxBulk    == 3      \* objects of one bulk allocation
MaxProfile == 3      \* allocation sites of one profile
MaxFetches == 2      \* Fetch calls made on one DwarfMetadataFetcher
MaxDies    == 3      \* DIEs below the unit DIEs of one binary
MaxRequest == 160    \* largest requested size (bytes) of a backing array
MaxSubobjects == 2   \* subobjects of the root of an ObjectLayout
MaxFrames == 2       \* frames of a call stack
MaxParams == 2       \* formal parameters of a function
MaxNodeRequest == 60 \* largest requested size (bytes) of a btree node
MaxNodeSlots == 2    \* largest kNodeSlots of a btree
MaxBinaries == 2     \* binaries of a Fetch
MaxUnits == 1        \* DWARF units of one section

(***************************************************************************)
(* Small helpers.                                                          *)
(***************************************************************************)
Max(a, b) == IF a > b THEN a ELSE b
Min(a, b) == IF a < b THEN a ELSE b

\* C++ integer division truncates toward zero.
Div(a, b) == IF a >= 0 THEN a \div b ELSE -((-a) \div b)

RECURSIVE SumSeq(_)
SumSeq(s) == IF s = <<>> THEN 0 ELSE Head(s) + SumSeq(Tail(s))

\* std::string::find(ch): the first position (0-based) of ch, or npos (-1).
RECURSIVE FindFrom(_, _, _)
FindFrom(s, ch, i) ==
    IF i > Len(s) THEN -1
    ELSE IF s[i] = ch THEN i - 1
    ELSE FindFrom(s, ch, i + 1)
Find(s, ch) == FindFrom(s, ch, 1)

\* std::string::substr(0, n): the first n characters, or all of s if shorter.
Substr0(s, n) == SubSeq(s, 1, Min(n, Len(s)))

EndsWith(s, suffix) ==
    /\ Len(s) >= Len(suffix)
    /\ SubSeq(s, Len(s) - Len(suffix) + 1, Len(s)) = suffix

(***************************************************************************)
(* TypeTree::Node and TypeTree.                                            *)
(***************************************************************************)
NoCounters == [total |-> 0, access |-> 0, llc_miss |-> 0]

\* TypeTree::Node::Node: a node without children.
Node(name, type_name, offset_bits, size_bits, multiplicity, type_kind, object_kind, global_offset, access_counters, is_union) ==
    [name |-> name, type_name |-> type_name, offset_bits |-> offset_bits,
     size_bits |-> size_bits, multiplicity |-> multiplicity,
     type_kind |-> type_kind, kind |-> object_kind,
     global_offset |-> global_offset, access_counters |-> access_counters,
     is_union |-> is_union, children |-> <<>>]

TypeTree(root, root_type_name, from_container, container_name) ==
    [root |-> root, root_type_name |-> root_type_name,
     from_container |-> from_container, container_name |-> container_name]

NumChildren(n) == Len(n.children)
GetGlobalOffsetBits(n) == n.global_offset
GetGlobalOffsetBytes(n) == Div(n.global_offset, 8)
GetTotalAccessCount(n) == n.access_counters.total
GetOffsetBits(n) == n.offset_bits
GetOffsetBytes(n) == Div(n.offset_bits, 8)
GetSizeBits(n) == n.size_bits
GetSizeBytes(n) == Div(n.size_bits, 8)
GetFullSizeBits(n) == n.size_bits * n.multiplicity
GetFullSizeBytes(n) == Div(n.size_bits * n.multiplicity, 8)
GetMultiplicity(n) == n.multiplicity
IsPadding(n) == n.type_kind = "PADDING_TYPE"
IsUnion(n) == n.is_union
Name(t) == t.root_type_name

\* TypeTree::Node::AddChild
AddChild(n, child) == [n EXCEPT !.children = Append(@, child)]

(***************************************************************************)
(* TypeTree::Node::MergeCounts.  The value is the status of the call and   *)
(* the receiver as the call leaves it: the counters of a node are added    *)
(* before its children are visited, and the loop over the children stops   *)
(* at the first child that reports an error.                               *)
(***************************************************************************)
\* AddCounters with the typed access counter left out of the sum.
AddCounters_NoAccess(a, b) ==
    [total    |-> a.total + b.total,
     access   |-> a.access,
     llc_miss |-> a.llc_miss + b.llc_miss]

\* AddCounters assigning the other node's counters instead of adding them.
AddCounters_Assign(a, b) == b

AddCounters(a, b) ==
    [total    |-> a.total + b.total,
     access   |-> a.access + b.access,
     llc_miss |-> a.llc_miss + b.llc_miss]

HasSameType(this, that) ==
    LET pos == Find(this.type_name, "[")
    IN  \/ this.type_name = that.type_name
        \/ /\ pos # -1
           /\ Substr0(this.type_name, pos) = Substr0(that.type_name, pos)

RECURSIVE Node_MergeCounts(_, _)
RECURSIVE MergeChildren(_, _, _)
MergeChildren(kids, otherKids, i) ==
    IF i > Len(kids) THEN [ok |-> TRUE, kids |-> kids]
    ELSE LET r == Node_MergeCounts(kids[i], otherKids[i])
             done == [kids EXCEPT ![i] = r.node]
         IN  IF ~r.ok THEN [ok |-> FALSE, kids |-> done]
             ELSE MergeChildren(done, otherKids, i + 1)

Node_MergeCounts(this, that) ==
    IF \/ this.name # that.name
       \/ NumChildren(this) # NumChildren(that)
       \/ ~HasSameType(this, that)
    THEN [ok |-> FALSE, node |-> this]
    ELSE LET added == [this EXCEPT !.access_counters =
                                       AddCounters(@, that.access_counters)]
             r == MergeChildren(added.children, that.children, 1)
         IN  [ok |-> r.ok, node |-> [added EXCEPT !.children = r.kids]]

\* TypeTree::MergeCounts
TypeTree_MergeCounts(t, o) ==
    LET r == Node_MergeCounts(t.root, o.root)
    IN  [ok |-> r.ok, tree |-> [t EXCEPT !.root = r.node]]

(***************************************************************************)
(* Histogram attribution: Overlap, TypeTree::Node::RecordAccess,           *)
(* TypeTree::CollapseHistogram and TypeTree::RecordAccessHistogram.        *)
(***************************************************************************)
kDefaultAccessGranularity == 8

AccessTypes == {"kAccess", "kLlcMiss"}

Overlap(a1, a2, b1, b2) == Max(a2, b2) - Min(a1, b1) < (a2 - a1) + (b2 - b1)

\* TypeTree::Node::IncrementAccessCount<AccessType>
IncrementAccessCount(n, at, count) ==
    [n EXCEPT !.access_counters =
        [total    |-> @.total + count,
         access   |-> IF at = "kAccess" THEN @.access + count ELSE @.access,
         llc_miss |-> IF at = "kLlcMiss" THEN @.llc_miss + count ELSE @.llc_miss]]

\* The loop over array_element_offsets: one increment per offset that overlaps.
RECURSIVE IncrementPerOffset(_, _, _, _, _, _)
IncrementPerOffset(n, offset_bytes, count, aeo, i, at) ==
    IF i > Len(aeo) THEN n
    ELSE LET base == GetGlobalOffsetBytes(n) + aeo[i]
             hit  == Overlap(offset_bytes, offset_bytes + kDefaultAccessGranularity,
                             base, base + GetFullSizeBytes(n))
         IN  IncrementPerOffset(IF hit THEN IncrementAccessCount(n, at, count) ELSE n,
                                offset_bytes, count, aeo, i + 1, at)

\* new_array_element_offsets: for each i < multiplicity, for each offset o of
\* the parent, o + i * size, in the order the two loops push them.
NewArrayElementOffsets(n, aeo) ==
    [k \in 1..(Max(GetMultiplicity(n), 0) * Len(aeo)) |->
        aeo[((k - 1) % Len(aeo)) + 1] + ((k - 1) \div Len(aeo)) * GetSizeBytes(n)]

RECURSIVE Node_RecordAccess(_, _, _, _, _)
RECURSIVE RecordInChildren(_, _, _, _, _, _)
RecordInChildren(kids, offset_bytes, count, aeo, i, at) ==
    IF i > Len(kids) THEN [hit |-> FALSE, kids |-> kids]
    ELSE LET r    == Node_RecordAccess(kids[i], offset_bytes, count, aeo, at)
             rest == RecordInChildren([kids EXCEPT ![i] = r.node],
                                      offset_bytes, count, aeo, i + 1, at)
         IN  [hit |-> r.hit \/ rest.hit, kids |-> rest.kids]

Node_RecordAccess(n, offset_bytes, count, aeo, at) ==
    IF ~Overlap(offset_bytes, offset_bytes + kDefaultAccessGranularity,
                GetGlobalOffsetBytes(n),
                GetGlobalOffsetBytes(n) + aeo[Len(aeo)] + GetFullSizeBytes(n))
    THEN [hit |-> FALSE, node |-> n]
    ELSE LET counted == IncrementPerOffset(n, offset_bytes, count, aeo, 1, at)
             r == RecordInChildren(counted.children, offset_bytes, count,
                                   NewArrayElementOffsets(n, aeo), 1, at)
         IN  [hit  |-> (NumChildren(n) = 0) \/ r.hit,
              node |-> [counted EXCEPT !.children = r.kids]]

\* A uint64_t compared with an int64_t: the signed operand is converted to
\* unsigned, so a negative one is larger than every histogram size.
UGt(u, s) == IF s < 0 THEN FALSE ELSE u > s
ULt(u, s) == IF s < 0 THEN TRUE ELSE u < s

\* CollapseHistogram adding up the buckets that are collapse_num apart.
CollapseHistogram_StrideNum(histogram, collapsed_size) ==
    LET histogram_size     == Len(histogram)
        new_histogram_size == 1 + Div(collapsed_size - 1, kDefaultAccessGranularity)
        collapse_num       == histogram_size \div new_histogram_size
    IN  [j \in 1..new_histogram_size |->
            SumSeq([n \in 1..histogram_size |->
                        IF n >= j /\ (n - j) % collapse_num = 0
                        THEN histogram[n] ELSE 0])]

CollapseHistogram(histogram, collapsed_size) ==
    LET histogram_size     == Len(histogram)
        new_histogram_size == 1 + Div(collapsed_size - 1, kDefaultAccessGranularity)
        collapse_num       == histogram_size \div new_histogram_size
    IN  [j \in 1..new_histogram_size |->
            SumSeq([i \in 1..collapse_num |->
                        histogram[(i - 1) * new_histogram_size + j]])]

\* RecordBuckets that leaves out the last bucket of the histogram.
RECURSIVE RecordBuckets_SkipLast(_, _, _, _)
RecordBuckets_SkipLast(root, histogram, i, at) ==
    IF i >= Len(histogram) THEN root
    ELSE RecordBuckets_SkipLast(
             Node_RecordAccess(root, (i - 1) * kDefaultAccessGranularity,
                               histogram[i], <<0>>, at).node,
             histogram, i + 1, at)

RECURSIVE RecordBuckets(_, _, _, _)
RecordBuckets(root, histogram, i, at) ==
    IF i > Len(histogram) THEN root
    ELSE RecordBuckets(
             Node_RecordAccess(root, (i - 1) * kDefaultAccessGranularity,
                               histogram[i], <<0>>, at).node,
             histogram, i + 1, at)

\* The % of two int64_t: the quotient is truncated towards zero.
CRem(a, b) ==
    LET m == IF b < 0 THEN -b ELSE b
    IN  IF a >= 0 THEN a % m ELSE -((-a) % m)

\* TypeTree::RecordAccess
TypeTree_RecordAccess(t, offset_bytes, count, at) ==
    LET full == GetFullSizeBytes(t.root)
        o    == IF offset_bytes > full THEN CRem(offset_bytes, full) ELSE offset_bytes
        r    == Node_RecordAccess(t.root, o, count, <<0>>, at)
    IN  [hit |-> r.hit, tree |-> [t EXCEPT !.root = r.node]]

\* The histogram as RecordAccessHistogram leaves it (it is passed by reference).
HistogramToRecord(t, histogram) ==
    LET bytes == Len(histogram) * kDefaultAccessGranularity
        full  == GetFullSizeBytes(t.root)
    IN  IF UGt(bytes, full) /\ ULt(bytes, 2 * full) THEN histogram
        ELSE IF UGt(bytes, full) THEN CollapseHistogram(histogram, full)
        ELSE histogram

RecordAccessHistogram(t, histogram, at) ==
    IF Len(histogram) * kDefaultAccessGranularity = 0
    THEN [status |-> "InvalidArgument", tree |-> t]
    ELSE LET h == HistogramToRecord(t, histogram)
         IN  [status |-> IF Len(histogram) % Len(h) # 0
                         THEN "FailedPrecondition" ELSE "Ok",
              tree   |-> [t EXCEPT !.root = RecordBuckets(t.root, h, 1, at)]]

(***************************************************************************)
(* The trees handed to the store.  As in BuildHistogram, a site's tree is  *)
(* a freshly built tree on which the site's histogram has been recorded.   *)
(* The layouts below are written as the tree builder lays them out.        *)
(***************************************************************************)
\* The type names of the layouts and debug indexes below, as character
\* sequences: l is long, i is int, c is char; X is in no index.
Ty ==
    [A |-> <<"A">>,
     B |-> <<"B">>,
     long |-> <<"l">>,
     char |-> <<"c">>,
     long1 |-> <<"l", "[", "1", "]">>,
     char8 |-> <<"c", "[", "8", "]">>,
     char16 |-> <<"c", "[", "1", "6", "]">>,
     U |-> <<"U">>,
     P |-> <<"P">>,
     int |-> <<"i">>,
     char4 |-> <<"c", "[", "4", "]">>,
     D |-> <<"D">>,
     X |-> <<"X">>,
     X2 |-> <<"X", "[", "2", "]">>,
     longptr |-> <<"l", "*">>,
     Q |-> <<"Q">>,
     E |-> <<"E">>]

Leaf(name, type_name, offset_bits, size_bits, multiplicity, type_kind) ==
    Node(name, type_name, offset_bits, size_bits, multiplicity, type_kind,
         IF multiplicity > 1 THEN "ARRAY_ELEMENTS" ELSE "FIELD",
         offset_bits, NoCounters, FALSE)

WithChildren(n, kids) == [n EXCEPT !.children = kids]

\* struct A { long x; long y; }
LayoutLL ==
    WithChildren(Leaf("A", Ty.A, 0, 128, 1, "RECORD_TYPE"),
        << Leaf("x", Ty.long, 0, 64, 1, "BUILTIN_TYPE"),
           Leaf("y", Ty.long, 64, 64, 1, "BUILTIN_TYPE") >>)

\* struct A { long x; long z; }
LayoutLZ ==
    WithChildren(Leaf("A", Ty.A, 0, 128, 1, "RECORD_TYPE"),
        << Leaf("x", Ty.long, 0, 64, 1, "BUILTIN_TYPE"),
           Leaf("z", Ty.long, 64, 64, 1, "BUILTIN_TYPE") >>)

\* struct A { char x[8]; }
LayoutC8 ==
    WithChildren(Leaf("A", Ty.A, 0, 64, 1, "RECORD_TYPE"),
        << WithChildren(Leaf("x", Ty.char8, 0, 64, 1, "ARRAY_TYPE"),
               << Leaf("[_]", Ty.char, 0, 8, 8, "BUILTIN_TYPE") >>) >>)

\* struct A { char x[16]; }
LayoutC16 ==
    WithChildren(Leaf("A", Ty.A, 0, 128, 1, "RECORD_TYPE"),
        << WithChildren(Leaf("x", Ty.char16, 0, 128, 1, "ARRAY_TYPE"),
               << Leaf("[_]", Ty.char, 0, 8, 16, "BUILTIN_TYPE") >>) >>)

\* struct A { long x; }
LayoutL ==
    WithChildren(Leaf("A", Ty.A, 0, 64, 1, "RECORD_TYPE"),
        << Leaf("x", Ty.long, 0, 64, 1, "BUILTIN_TYPE") >>)

\* struct A { T x; } where the index has no type named "l[1]"
LayoutL1 ==
    WithChildren(Leaf("A", Ty.A, 0, 64, 1, "RECORD_TYPE"),
        << [Leaf("x", Ty.long1, 0, 64, 1, "UNKNOWN_TYPE") EXCEPT !.kind = "UNKNOWN"] >>)

\* a builtin B of 8 bytes
LayoutB == Leaf("B", Ty.B, 0, 64, 1, "BUILTIN_TYPE")

FreshTrees ==
    { TypeTree(LayoutLL, Ty.A, FALSE, ""), TypeTree(LayoutLZ, Ty.A, FALSE, ""),
      TypeTree(LayoutC8, Ty.A, FALSE, ""), TypeTree(LayoutC16, Ty.A, FALSE, ""),
      TypeTree(LayoutL, Ty.A, FALSE, ""),  TypeTree(LayoutL1, Ty.A, FALSE, ""),
      TypeTree(LayoutB, Ty.B, FALSE, ""),
      \* a tree synthesized for a container: the root node is the container's
      \* block, the root type name is the element type
      TypeTree(LayoutL, Ty.B, TRUE, "container") }

\* The number of 8-byte buckets of an allocation of the tree's type.
Buckets(t) ==
    Max(1, Div(GetFullSizeBytes(t.root) + kDefaultAccessGranularity - 1,
               kDefaultAccessGranularity))

\* The histograms of the sites: one bucket per 8 bytes of the type, bucket i
\* holding c + i - 1.
SiteHistograms(t, counts) ==
    { [i \in 1..Buckets(t) |-> c + i - 1] : c \in counts }

SiteTrees ==
    UNION { { RecordAccessHistogram(t, h, "kAccess").tree : h \in SiteHistograms(t, 0..MaxCount) } :
              t \in FreshTrees }

(***************************************************************************)
(* TypeTreeStore.                                                          *)
(***************************************************************************)
CallStacks == {"cs1", "cs2"}
NoTree     == [null |-> TRUE]
NoName     == <<>>

\* StoreInsert merging the new tree's counts into the stored tree, which stays.
StoreInsert_KeepStored(st, callstack, type_tree) ==
    IF type_tree = NoTree
    THEN [status |-> "InvalidArgument", store |-> st, path |-> "null"]
    ELSE IF st[callstack] # NoTree
    THEN LET curr_type_tree == st[callstack]
         IN  IF Name(curr_type_tree) # Name(type_tree)
             THEN [status |-> "InvalidArgument", store |-> st, path |-> "different_root"]
             ELSE LET r == TypeTree_MergeCounts(curr_type_tree, type_tree)
                  IN  IF ~r.ok
                      THEN [status |-> "InvalidArgument", store |-> st, path |-> "merge_error"]
                      ELSE [status |-> "Ok",
                            store  |-> [st EXCEPT ![callstack] = r.tree],
                            path   |-> "merged"]
    ELSE [status |-> "Ok", store |-> [st EXCEPT ![callstack] = type_tree], path |-> "new"]

\* StoreInsert without the comparison of the two root type names.
StoreInsert_NoNameCheck(st, callstack, type_tree) ==
    IF type_tree = NoTree
    THEN [status |-> "InvalidArgument", store |-> st, path |-> "null"]
    ELSE IF st[callstack] # NoTree
    THEN LET r == TypeTree_MergeCounts(type_tree, st[callstack])
         IN  IF ~r.ok
             THEN [status |-> "InvalidArgument", store |-> st, path |-> "merge_error"]
             ELSE [status |-> "Ok",
                   store  |-> [st EXCEPT ![callstack] = r.tree],
                   path   |-> "merged"]
    ELSE [status |-> "Ok", store |-> [st EXCEPT ![callstack] = type_tree], path |-> "new"]

\* StoreInsert storing the inserted tree as a failed merge left it.
StoreInsert_StoreOnMergeError(st, callstack, type_tree) ==
    IF type_tree = NoTree
    THEN [status |-> "InvalidArgument", store |-> st, path |-> "null"]
    ELSE IF st[callstack] # NoTree
    THEN LET curr_type_tree == st[callstack]
         IN  IF Name(curr_type_tree) # Name(type_tree)
             THEN [status |-> "InvalidArgument", store |-> st, path |-> "different_root"]
             ELSE LET r == TypeTree_MergeCounts(type_tree, curr_type_tree)
                  IN  IF ~r.ok
                      THEN [status |-> "InvalidArgument",
                            store  |-> [st EXCEPT ![callstack] = r.tree],
                            path   |-> "merge_error"]
                      ELSE [status |-> "Ok",
                            store  |-> [st EXCEPT ![callstack] = r.tree],
                            path   |-> "merged"]
    ELSE [status |-> "Ok", store |-> [st EXCEPT ![callstack] = type_tree], path |-> "new"]

\* TypeTreeStore::Insert on the map st: the status, the map afterwards and the
\* path taken through the function.
StoreInsert(st, callstack, type_tree) ==
    IF type_tree = NoTree
    THEN [status |-> "InvalidArgument", store |-> st, path |-> "null"]
    ELSE IF st[callstack] # NoTree
    THEN LET curr_type_tree == st[callstack]
         IN  IF Name(curr_type_tree) # Name(type_tree)
             THEN [status |-> "InvalidArgument", store |-> st, path |-> "different_root"]
             ELSE LET r == TypeTree_MergeCounts(type_tree, curr_type_tree)
                  IN  IF ~r.ok
                      THEN [status |-> "InvalidArgument", store |-> st, path |-> "merge_error"]
                      ELSE [status |-> "Ok",
                            store  |-> [st EXCEPT ![callstack] = r.tree],
                            path   |-> "merged"]
    ELSE [status |-> "Ok", store |-> [st EXCEPT ![callstack] = type_tree], path |-> "new"]

NoCall == [op |-> "none"]

StoreCall(op, callstack, type_tree) ==
    LET r == StoreInsert(store, callstack, type_tree)
    IN  /\ inserts < MaxInserts
        /\ inserts' = inserts + 1
        /\ store' = r.store
        /\ firstName' = IF r.path = "new"
                        THEN [firstName EXCEPT ![callstack] = Name(type_tree)]
                        ELSE firstName
        /\ lastCall' = [op |-> op, callstack |-> callstack, type_tree |-> type_tree,
                        prev |-> store[callstack], path |-> r.path, status |-> r.status,
                        returned |-> IF op = "InsertAndGet" /\ r.status = "Ok"
                                     THEN r.store[callstack] ELSE NoTree]
        /\ UNCHANGED <<pc, orderVars, treeVars, buildVars, fetchVars, parseVars>>

\* TypeTreeStore::Insert
Insert == \E cs \in CallStacks, t \in SiteTrees \cup {NoTree} : StoreCall("Insert", cs, t)

\* TypeTreeStore::InsertAndGet
InsertAndGet == \E cs \in CallStacks, t \in SiteTrees \cup {NoTree} : StoreCall("InsertAndGet", cs, t)

NoArg == [null |-> TRUE]

EmptyStore == [cs \in CallStacks |-> NoTree]

IdleOrder == /\ feedA = <<>> /\ feedB = <<>> /\ storeA = EmptyStore /\ storeB = EmptyStore
             /\ fed = 0
IdleTree  == /\ tree = NoTree /\ other = NoTree /\ result = "none" /\ index = [null |-> TRUE]
             /\ hist = <<>> /\ prev = NoTree /\ ops = 0 /\ arg = NoArg
\* Statistics as BuildHistogram starts with it.
NoStats ==
    [total_allocations_count      |-> 0,
     total_found_type             |-> 0,
     total_verified               |-> 0,
     heap_alloc_count             |-> 0,
     container_alloc_count        |-> 0,
     total_record_count           |-> 0,
     total_after_filtering        |-> 0,
     duplicate_callstack_count    |-> 0,
     total_accesses               |-> 0,
     total_accesses_on_heapallocs |-> 0,
     total_accesses_on_containers |-> 0,
     total_accesses_on_records    |-> 0]

NoStep == [path |-> "none"]

IdleBuild == /\ profile = <<>> /\ site = 0 /\ stats = NoStats
             /\ config = [null |-> TRUE] /\ step = NoStep
NoFetch == [op |-> "none"]

IdleFetch == /\ cache = <<>> /\ epoch = 0 /\ fetched = NoFetch
IdleParse == /\ wk = <<>> /\ dies = <<>> /\ mutex = "none" /\ root_types = <<>>
IdleStore == /\ store = EmptyStore /\ lastCall = NoCall /\ inserts = 0
             /\ firstName = [cs \in CallStacks |-> NoName]

Init == /\ pc = "store" /\ IdleStore /\ IdleOrder /\ IdleTree /\ IdleBuild /\ IdleFetch /\ IdleParse

Next == Insert \/ InsertAndGet

Spec == Init /\ [][Next]_vars

(***************************************************************************)
(* The same sites fed to two stores in two orders.  A site is a call stack *)
(* and the tree built for it; a caller that gets an error from Insert goes *)
(* on with the next site.                                                  *)
(***************************************************************************)
Sites == CallStacks \X SiteTrees

\* All orders of the sequence s.
Orders(s) ==
    { [i \in 1..Len(s) |-> s[p[i]]] :
          p \in { q \in [1..Len(s) -> 1..Len(s)] : \A i, j \in 1..Len(s) : q[i] = q[j] => i = j } }

InitOrder ==
    /\ pc = "order" /\ IdleStore /\ IdleTree /\ IdleBuild /\ IdleFetch /\ IdleParse
    /\ storeA = EmptyStore /\ storeB = EmptyStore /\ fed = 0
    /\ \E n \in 0..MaxSites : feedA \in [1..n -> Sites]
    /\ feedB \in Orders(feedA)

\* The next site of each order is inserted into its store.
FeedNext ==
    /\ fed < Len(feedA)
    /\ fed' = fed + 1
    /\ storeA' = StoreInsert(storeA, feedA[fed + 1][1], feedA[fed + 1][2]).store
    /\ storeB' = StoreInsert(storeB, feedB[fed + 1][1], feedB[fed + 1][2]).store
    /\ UNCHANGED <<pc, storeVars, treeVars, feedA, feedB, buildVars, fetchVars, parseVars>>

NextOrder == FeedNext

SpecOrder == InitOrder /\ [][NextOrder]_vars

(***************************************************************************)
(* TypeTree::Verify.  A null parent or older sibling is NoTree.            *)
(***************************************************************************)
RECURSIVE Node_Verify(_, _, _)
RECURSIVE VerifyChildren(_, _, _)

\* The loop at the end of Verify: each child is verified against the child
\* before it; no child is skipped when an earlier one fails.
VerifyChildren(this, i, older_sibling_of_child) ==
    IF i > NumChildren(this) THEN TRUE
    ELSE LET child == this.children[i]
         IN  /\ Node_Verify(child, this, older_sibling_of_child)
             /\ VerifyChildren(this, i + 1, child)

Node_Verify(this, parent, older_sibling) ==
    IF parent # NoTree /\ IsUnion(parent)
    THEN /\ ~(GetOffsetBytes(this) # 0 /\ ~IsPadding(this))
         /\ IF older_sibling = NoTree
            THEN ~(NumChildren(parent) = 1
                   /\ GetTotalAccessCount(this) # GetTotalAccessCount(parent))
            ELSE ~(GetFullSizeBytes(this) = GetFullSizeBytes(older_sibling)
                   /\ GetTotalAccessCount(this) # GetTotalAccessCount(older_sibling))
    ELSE IF IsUnion(this)
    THEN /\ \A i \in 1..NumChildren(this) :
                ~(GetOffsetBytes(this.children[i]) # 0 /\ ~IsPadding(this.children[i]))
         /\ \A i \in 1..NumChildren(this) :
                Node_Verify(this.children[i], this, older_sibling)
    ELSE /\ NumChildren(this) > 0 =>
              /\ ~(SumSeq([i \in 1..NumChildren(this) |->
                              GetTotalAccessCount(this.children[i])])
                     < GetTotalAccessCount(this))
              /\ SumSeq([i \in 1..NumChildren(this) |->
                            GetSizeBits(this.children[i]) * GetMultiplicity(this.children[i])])
                     = GetSizeBits(this)
         /\ ~(~IsPadding(this) /\ this.type_name = <<>>)
         /\ parent # NoTree =>
              GetGlobalOffsetBits(this) = GetGlobalOffsetBits(parent) + GetOffsetBits(this)
         /\ IF older_sibling # NoTree
            THEN /\ ~(GetGlobalOffsetBits(this) <= GetGlobalOffsetBits(older_sibling))
                 /\ GetSizeBits(older_sibling) + GetOffsetBits(older_sibling)
                        = GetOffsetBits(this)
                 /\ GetGlobalOffsetBits(older_sibling) + GetSizeBits(older_sibling)
                        = GetGlobalOffsetBits(this)
            ELSE GetOffsetBits(this) = 0
         /\ ~(GetSizeBits(this) <= 0)
         /\ VerifyChildren(this, 1, NoTree)

Verify(t) == Node_Verify(t.root, NoTree, NoTree)

(***************************************************************************)
(* Trees handed to Verify: layouts with unions, arrays and nested records, *)
(* with every assignment of totals up to MaxCount, and the layouts with    *)
(* one field of one node changed.                                          *)
(***************************************************************************)
RECURSIVE Place(_, _)
\* The node n under a parent at global offset g: global offsets follow offsets.
Place(n, g) ==
    [n EXCEPT !.global_offset = g + n.offset_bits,
              !.children = [i \in 1..Len(n.children) |->
                               Place(n.children[i], g + n.offset_bits)]]

UnionNode(name, type_name, offset_bits, size_bits) ==
    [Leaf(name, type_name, offset_bits, size_bits, 1, "RECORD_TYPE") EXCEPT !.is_union = TRUE]

\* union U { long p; struct P { int r; int s; } q; }
UnionPQ(offset_bits) ==
    WithChildren(UnionNode("u", Ty.U, offset_bits, 64),
        << Leaf("p", Ty.long, 0, 64, 1, "BUILTIN_TYPE"),
           WithChildren(Leaf("q", Ty.P, 0, 64, 1, "RECORD_TYPE"),
               << Leaf("r", Ty.int, 0, 32, 1, "BUILTIN_TYPE"),
                  Leaf("s", Ty.int, 32, 32, 1, "BUILTIN_TYPE") >>) >>)

\* struct A { long x; union U u; }
LayoutXU ==
    Place(WithChildren(Leaf("A", Ty.A, 0, 128, 1, "RECORD_TYPE"),
        << Leaf("x", Ty.long, 0, 64, 1, "BUILTIN_TYPE"), UnionPQ(64) >>), 0)

\* struct A { union U u; long y; }
LayoutUY ==
    Place(WithChildren(Leaf("A", Ty.A, 0, 128, 1, "RECORD_TYPE"),
        << UnionPQ(0), Leaf("y", Ty.long, 64, 64, 1, "BUILTIN_TYPE") >>), 0)

\* An object layout whose first field is four chars as one node of
\* multiplicity 4, followed by an int.
LayoutEY ==
    Place(WithChildren(Leaf("A", Ty.A, 0, 64, 1, "RECORD_TYPE"),
        << Leaf("e", Ty.char, 0, 8, 4, "BUILTIN_TYPE"),
           Leaf("y", Ty.int, 32, 32, 1, "BUILTIN_TYPE") >>), 0)

\* struct A { char a[4]; int y; }
LayoutAY ==
    Place(WithChildren(Leaf("A", Ty.A, 0, 64, 1, "RECORD_TYPE"),
        << WithChildren(Leaf("a", Ty.char4, 0, 32, 1, "ARRAY_TYPE"),
               << Leaf("[_]", Ty.char, 0, 8, 4, "BUILTIN_TYPE") >>),
           Leaf("y", Ty.int, 32, 32, 1, "BUILTIN_TYPE") >>), 0)

VerifyLayouts == {LayoutXU, LayoutUY, LayoutEY, LayoutAY, LayoutLL}

RECURSIVE WithTotals(_)
RECURSIVE KidsWithTotals(_)
\* Every assignment of totals in 0..MaxCount to the nodes of n.
WithTotals(n) ==
    { [n EXCEPT !.access_counters = [total |-> c, access |-> c, llc_miss |-> 0],
                !.children = kids] :
          c \in 0..MaxCount, kids \in KidsWithTotals(n.children) }

KidsWithTotals(kids) ==
    IF kids = <<>> THEN {<<>>}
    ELSE { <<k>> \o rest : k \in WithTotals(Head(kids)), rest \in KidsWithTotals(Tail(kids)) }

RECURSIVE OneNodeChanged(_)
\* The trees that differ from n in one field of one node.
OneNodeChanged(n) ==
    {[n EXCEPT !.size_bits = 0], [n EXCEPT !.type_name = <<>>],
     [n EXCEPT !.global_offset = @ + 8], [n EXCEPT !.offset_bits = @ + 8]}
    \cup UNION { { [n EXCEPT !.children[i] = k] : k \in OneNodeChanged(n.children[i]) } :
                     i \in 1..Len(n.children) }

VerifyTrees ==
    { TypeTree(r, r.type_name, FALSE, "") :
          r \in UNION { WithTotals(l) \cup OneNodeChanged(l) : l \in VerifyLayouts } }

InitVerify ==
    /\ pc = "built" /\ IdleStore /\ IdleOrder /\ IdleBuild /\ IdleFetch /\ IdleParse
    /\ tree \in VerifyTrees
    /\ other = NoTree /\ result = "none" /\ index = [null |-> TRUE] /\ hist = <<>>
    /\ prev = NoTree /\ ops = 0 /\ arg = NoArg

\* HistogramBuilder verifies the tree it has built.
DoVerify ==
    /\ pc = "built"
    /\ result' = Verify(tree)
    /\ pc' = "verified"
    /\ UNCHANGED <<storeVars, orderVars, tree, other, index, hist, prev, ops, arg, buildVars, fetchVars, parseVars>>

NextVerify == DoVerify

SpecVerify == InitVerify /\ [][NextVerify]_vars

(***************************************************************************)
(* The debug index (DwarfMetadataFetcher) and the resolver's tree builder. *)
(* An index is [types: type name -> TypeData, pointer_size,                *)
(* hash_descending]; hash_descending is the order in which a hash set of   *)
(* field indices happens to be iterated.                                   *)
(***************************************************************************)
FieldData(name, offset, type_name, inherited) ==
    [name |-> name, offset |-> offset, type_name |-> type_name, inherited |-> inherited]

\* size is -1 when the type's entry carries no byte size.
TypeData(name, size, data_type, fields) ==
    [name |-> name, size |-> size, data_type |-> data_type, fields |-> fields]

\* offset -> indices (0-based) of the fields at that offset.
OffsetIdx(type_data) ==
    [o \in { type_data.fields[i].offset : i \in 1..Len(type_data.fields) } |->
        { i - 1 : i \in { j \in 1..Len(type_data.fields) : type_data.fields[j].offset = o } }]

GetType(ix, type_name) ==
    IF type_name = <<>> THEN [ok |-> FALSE, status |-> "InvalidArgument"]
    ELSE IF type_name \in DOMAIN ix.types
         THEN [ok |-> TRUE, status |-> "ok", value |-> ix.types[type_name]]
         ELSE [ok |-> FALSE, status |-> "NotFound"]

GetPointerSize(ix) == ix.pointer_size

DwarfTypeKindToObjectTypeKind(data_type) ==
    CASE data_type \in {"STRUCTURE", "CLASS", "UNION"} -> "RECORD_TYPE"
      [] data_type = "BASE_TYPE" -> "BUILTIN_TYPE"
      [] data_type = "POINTER_LIKE" -> "INDIRECTION_TYPE"
      [] data_type = "ENUM" -> "ENUM_TYPE"
      [] OTHER -> "UNKNOWN_TYPE"

ParentGlobal(parent_node, offset_bits) ==
    IF parent_node # NoTree THEN GetGlobalOffsetBits(parent_node) + offset_bits ELSE 0

ElementsOrField(multiplicity) == IF multiplicity > 1 THEN "ARRAY_ELEMENTS" ELSE "FIELD"

CreateNodeFromTypedata(name, type_name, offset_bits, multiplicity, type_data, parent_node) ==
    Node(name, type_name, offset_bits, type_data.size * 8, multiplicity,
         DwarfTypeKindToObjectTypeKind(type_data.data_type), ElementsOrField(multiplicity),
         ParentGlobal(parent_node, offset_bits), NoCounters, type_data.data_type = "UNION")

CreateArrayTypeNode(name, type_name, size_bits, offset_bits, multiplicity, parent_node) ==
    Node(name, type_name, offset_bits, size_bits, multiplicity, "ARRAY_TYPE",
         ElementsOrField(multiplicity), ParentGlobal(parent_node, offset_bits), NoCounters, FALSE)

RECURSIVE Join(_)
\* A type name as the string used for a node's name.
Join(chars) == IF chars = <<>> THEN "" ELSE Head(chars) \o Join(Tail(chars))

CreateRootNode(type_name, type_data) ==
    Node(Join(type_name), type_name, 0, type_data.size * 8, 1,
         DwarfTypeKindToObjectTypeKind(type_data.data_type), "FIELD", 0, NoCounters,
         type_data.data_type = "UNION")

CreatePaddingNode(from_offset, to_offset, parent_node) ==
    Node("", <<>>, from_offset, to_offset - from_offset, 1, "PADDING_TYPE", "PADDING",
         ParentGlobal(parent_node, from_offset), NoCounters, FALSE)

CreateUnresolvedTypeNode(name, type_name, offset_bits, multiplicity, inferred_size, parent_node) ==
    Node(name, type_name, offset_bits, inferred_size, multiplicity, "UNKNOWN_TYPE", "UNKNOWN",
         ParentGlobal(parent_node, offset_bits), NoCounters, FALSE)

CreatePointerNode(name, type_name, offset_bits, multiplicity, pointer_size, parent_node) ==
    Node(name, type_name, offset_bits, pointer_size, multiplicity, "INDIRECTION_TYPE",
         ElementsOrField(multiplicity), ParentGlobal(parent_node, offset_bits), NoCounters, FALSE)

\* Field names starting with "_".
UnderscoreNames == {"_f1", "_f2", "_f3"}
StartsWithUnderscore(name) == name \in UnderscoreNames

\* The field indices (0-based) of one offset, in the order the hash set yields them.
RECURSIVE InOrder(_, _)
InOrder(indices, descending) ==
    IF indices = {} THEN <<>>
    ELSE LET first == IF descending
                      THEN CHOOSE x \in indices : \A y \in indices : y <= x
                      ELSE CHOOSE x \in indices : \A y \in indices : x <= y
         IN  <<first>> \o InOrder(indices \ {first}, descending)

NoField == [null |-> TRUE]

\* The loop over the conflicting fields of one offset; best is
\* [type_data, field_data] or NoField.
RECURSIVE PickForOffset(_, _, _, _, _)
PickForOffset(ix, type_data, order, k, best) ==
    IF k > Len(order) THEN best
    ELSE LET field_data == type_data.fields[order[k] + 1]
             status_or_type_data == GetType(ix, field_data.type_name)
             taken == [type_data |-> status_or_type_data.value, field_data |-> field_data]
             next ==
                 IF ~status_or_type_data.ok THEN best
                 ELSE IF best = NoField THEN taken
                 ELSE IF /\ best.type_data.size = status_or_type_data.value.size
                         /\ Len(best.type_data.fields) = Len(status_or_type_data.value.fields)
                      THEN IF ~best.field_data.inherited /\ field_data.inherited THEN taken
                           ELSE IF /\ StartsWithUnderscore(best.field_data.name)
                                   /\ ~StartsWithUnderscore(field_data.name)
                                THEN taken
                                ELSE best
                 ELSE IF best.type_data.size < status_or_type_data.value.size THEN taken
                 ELSE IF Len(best.type_data.fields) < Len(status_or_type_data.value.fields)
                      THEN taken
                      ELSE best
         IN  PickForOffset(ix, type_data, order, k + 1, next)

RECURSIVE SortedSeq(_)
SortedSeq(S) ==
    IF S = {} THEN <<>>
    ELSE LET m == CHOOSE x \in S : \A y \in S : x <= y IN <<m>> \o SortedSeq(S \ {m})

\* The loop over the sorted offsets; returns [done, fields]: done is "all"
\* when every offset got a field, "none" when an offset had no resolvable field.
RECURSIVE ResolveOffsets(_, _, _, _, _)
ResolveOffsets(ix, type_data, sorted_offsets, k, resolved_fields) ==
    IF k > Len(sorted_offsets) THEN [done |-> "all", fields |-> resolved_fields]
    ELSE LET indices == OffsetIdx(type_data)[sorted_offsets[k]]
         IN  IF Cardinality(indices) = 1
             THEN ResolveOffsets(ix, type_data, sorted_offsets, k + 1,
                      Append(resolved_fields, type_data.fields[(CHOOSE x \in indices : TRUE) + 1]))
             ELSE LET best == PickForOffset(ix, type_data,
                                  InOrder(indices, ix.hash_descending), 1, NoField)
                  IN  IF best = NoField THEN [done |-> "none", fields |-> <<>>]
                      ELSE ResolveOffsets(ix, type_data, sorted_offsets, k + 1,
                               Append(resolved_fields, best.field_data))

ResolveFieldConflicts(ix, type_data) ==
    IF type_data.data_type = "UNION" THEN [ok |-> TRUE, value |-> type_data.fields]
    ELSE LET r == ResolveOffsets(ix, type_data, SortedSeq(DOMAIN OffsetIdx(type_data)), 1, <<>>)
         IN  IF r.done = "none" THEN [ok |-> TRUE, value |-> <<>>]
             ELSE IF Len(r.fields) # Cardinality(DOMAIN OffsetIdx(type_data))
                  THEN [ok |-> FALSE, value |-> <<>>]
                  ELSE [ok |-> TRUE, value |-> r.fields]

Digits == {"0", "1", "2", "3", "4", "5", "6", "7", "8", "9"}
DigitValue(ch) ==
    CASE ch = "0" -> 0 [] ch = "1" -> 1 [] ch = "2" -> 2 [] ch = "3" -> 3 [] ch = "4" -> 4
      [] ch = "5" -> 5 [] ch = "6" -> 6 [] ch = "7" -> 7 [] ch = "8" -> 8 [] ch = "9" -> 9

\* Where the match of \[(\d+)\]$ starts in type_name, 0 when there is none.
ArraySuffixStart(type_name) ==
    LET n == Len(type_name)
        starts == { k \in 1..(n - 2) :
                      /\ type_name[k] = "[" /\ type_name[n] = "]" /\ k + 1 <= n - 1
                      /\ \A j \in (k + 1)..(n - 1) : type_name[j] \in Digits }
    IN  IF starts = {} THEN 0 ELSE CHOOSE k \in starts : TRUE

RECURSIVE DecimalValue(_)
DecimalValue(chars) ==
    IF chars = <<>> THEN 0
    ELSE DecimalValue(SubSeq(chars, 1, Len(chars) - 1)) * 10 + DigitValue(chars[Len(chars)])

IsIndirection(type_name) ==
    \/ EndsWith(type_name, <<"*">>) \/ EndsWith(type_name, <<"&">>)
    \/ EndsWith(type_name, <<"(", ")">>) \/ EndsWith(type_name, <<")", ">">>)

GetArrayMultiplicity(type_name) ==
    LET k == ArraySuffixStart(type_name)
    IN  IF k = 0 THEN 1 ELSE DecimalValue(SubSeq(type_name, k + 1, Len(type_name) - 1))

GetArrayChildTypeName(type_name) ==
    LET k == ArraySuffixStart(type_name)
    IN  IF k = 0 THEN type_name ELSE SubSeq(type_name, 1, k - 1)

\* field_index is 0-based, as in the source.
AddChildAndInsertPaddingIfNecessary(this, child, field_index, resolved_fields) ==
    IF IsUnion(this) THEN AddChild(this, child)
    ELSE LET last_end == resolved_fields[field_index].offset * 8
                             + GetFullSizeBits(this.children[NumChildren(this)])
             current_start == resolved_fields[field_index + 1].offset * 8
             gap == field_index > 0 /\ current_start > last_end
             padded == IF gap
                       THEN AddChild(this, CreatePaddingNode(last_end, current_start, this))
                       ELSE this
             tail == /\ Len(resolved_fields) > 0
                     /\ field_index = Len(resolved_fields) - 1
                     /\ GetSizeBits(this) > GetOffsetBits(child) + GetFullSizeBits(child)
             with_child == AddChild(padded, child)
         IN  IF tail
             THEN AddChild(with_child,
                      CreatePaddingNode(GetOffsetBits(child) + GetFullSizeBits(child),
                                        GetSizeBits(this), this))
             ELSE with_child

BuilderCtxt(type_name, field_name, field_index, field_offset, multiplicity, parent_node, resolved_fields) ==
    [type_name |-> type_name, field_name |-> field_name, field_index |-> field_index,
     field_offset |-> field_offset, multiplicity |-> multiplicity,
     parent_node |-> parent_node, resolved_fields |-> resolved_fields]

RECURSIVE BuildTreeRecursive(_, _)
RECURSIVE BuildFields(_, _, _, _)

\* The loop over the resolved fields of curr_node, from field_index on.
BuildFields(ix, curr_node, resolved_fields, field_index) ==
    IF field_index >= Len(resolved_fields) THEN curr_node
    ELSE LET field_data == resolved_fields[field_index + 1]
             subtree == BuildTreeRecursive(ix,
                            BuilderCtxt(field_data.type_name, field_data.name, field_index,
                                        field_data.offset * 8, 1, curr_node, resolved_fields))
         IN  BuildFields(ix,
                 AddChildAndInsertPaddingIfNecessary(curr_node, subtree, field_index,
                                                     resolved_fields),
                 resolved_fields, field_index + 1)

BuildTreeRecursive(ix, ctxt) ==
    IF IsIndirection(ctxt.type_name)
    THEN CreatePointerNode(ctxt.field_name, ctxt.type_name, ctxt.field_offset,
                           ctxt.multiplicity, GetPointerSize(ix) * 8, ctxt.parent_node)
    ELSE IF GetArrayMultiplicity(ctxt.type_name) > 1
    THEN LET curr_node == CreateArrayTypeNode(ctxt.field_name, ctxt.type_name, -1,
                              ctxt.field_offset, ctxt.multiplicity, ctxt.parent_node)
             subtree == BuildTreeRecursive(ix,
                            BuilderCtxt(GetArrayChildTypeName(ctxt.type_name), "[_]", 0, 0,
                                        GetArrayMultiplicity(ctxt.type_name), curr_node, <<>>))
             sized == [curr_node EXCEPT
                          !.size_bits = GetSizeBits(subtree) * GetMultiplicity(subtree)]
         IN  AddChildAndInsertPaddingIfNecessary(sized, subtree, 0, <<>>)
    ELSE LET status_or == GetType(ix, ctxt.type_name)
         IN  IF ~status_or.ok
             THEN LET inferred_size ==
                          IF ctxt.resolved_fields = <<>> THEN GetSizeBits(ctxt.parent_node)
                          ELSE IF ctxt.field_index >= Len(ctxt.resolved_fields) - 1
                          THEN GetSizeBits(ctxt.parent_node)
                                   - ctxt.resolved_fields[ctxt.field_index + 1].offset * 8
                          ELSE ctxt.resolved_fields[ctxt.field_index + 2].offset * 8
                                   - ctxt.resolved_fields[ctxt.field_index + 1].offset * 8
                  IN  CreateUnresolvedTypeNode(ctxt.field_name, ctxt.type_name,
                          ctxt.field_offset, ctxt.multiplicity, inferred_size, ctxt.parent_node)
             ELSE LET curr_node == CreateNodeFromTypedata(ctxt.field_name, ctxt.type_name,
                                       ctxt.field_offset, ctxt.multiplicity, status_or.value,
                                       ctxt.parent_node)
                      resolved_fields_or == ResolveFieldConflicts(ix, status_or.value)
                  IN  \* the source tests status_or here, which is ok on this path
                      IF resolved_fields_or.value = <<>> THEN curr_node
                      ELSE BuildFields(ix, curr_node, resolved_fields_or.value, 0)

BuildTree(ix, type_name) ==
    IF IsIndirection(type_name)
    THEN [ok |-> TRUE, status |-> "ok",
          value |-> CreatePointerNode(Join(type_name), type_name, 0, 1,
                                      GetPointerSize(ix) * 8, NoTree)]
    ELSE LET type_data_or == GetType(ix, type_name)
         IN  IF ~type_data_or.ok THEN [ok |-> FALSE, status |-> type_data_or.status]
             ELSE LET root_node == CreateRootNode(type_name, type_data_or.value)
                      resolved_fields_or == ResolveFieldConflicts(ix, type_data_or.value)
                  IN  IF ~resolved_fields_or.ok THEN [ok |-> FALSE, status |-> "Internal"]
                      ELSE [ok |-> TRUE, status |-> "ok",
                            value |-> BuildFields(ix, root_node, resolved_fields_or.value, 0)]

CreateTreeFromDwarf(ix, type_name, from_container, container_name) ==
    LET root == BuildTree(ix, type_name)
    IN  IF ~root.ok THEN [ok |-> FALSE, status |-> root.status]
        ELSE [ok |-> TRUE, status |-> "ok",
              value |-> TypeTree(root.value, type_name, from_container, container_name)]

ResolveTypeFromTypeName(ix, type_name) == CreateTreeFromDwarf(ix, type_name, FALSE, "")

(***************************************************************************)
(* Debug indexes.  Every index holds the types                             *)
(*   long l (8), int i (4), char c (1),                                    *)
(*   struct P { int r; int s; },  union U { long p; P q; },                *)
(*   struct Q { long x; char c; Q(); }  (size 16, data size 9),            *)
(*   struct E {}  (size 1),                                                *)
(*   struct D;  (declared only: an entry without byte size and fields)     *)
(* and a record A of up to MaxFields members laid out as the C++ ABI does. *)
(* A type X is used by A but has no entry in the index.                    *)
(***************************************************************************)
\* What a member declaration of A is to the compiler: its type, size, data
\* size (what a following member may not overlap), alignment, whether it is a
\* base class, and whether its entry carries a data member location
\* (a bit-field carries a bit offset instead).
Member(type_name, size, dsize, align, inherited, located) ==
    [type_name |-> type_name, size |-> size, dsize |-> dsize, align |-> align,
     inherited |-> inherited, located |-> located]

MemberKinds ==
    { Member(Ty.long, 8, 8, 8, FALSE, TRUE),       \* long f;
      Member(Ty.int, 4, 4, 4, FALSE, TRUE),        \* int f;
      Member(Ty.char, 1, 1, 1, FALSE, TRUE),       \* char f;
      Member(Ty.char4, 4, 4, 1, FALSE, TRUE),      \* char f[4];
      Member(Ty.longptr, 8, 8, 8, FALSE, TRUE),    \* long* f;
      Member(Ty.P, 8, 8, 4, FALSE, TRUE),       \* P f;
      Member(Ty.U, 8, 8, 8, FALSE, TRUE),      \* U f;
      Member(Ty.D, 8, 8, 8, FALSE, TRUE),       \* D f;
      Member(Ty.X, 8, 8, 8, FALSE, TRUE),    \* X f;
      Member(Ty.X2, 16, 16, 8, FALSE, TRUE),    \* X f[2];
      Member(Ty.int, 4, 1, 4, FALSE, FALSE),       \* int f : 3;
      Member(Ty.Q, 16, 9, 8, TRUE, TRUE),      \* : Q
      Member(Ty.E, 1, 0, 1, TRUE, TRUE) }      \* : E

\* Base classes come first.
Declarations ==
    { d \in UNION { [1..n -> MemberKinds] : n \in 1..MaxFields } :
          \A k \in 2..Len(d) : ~d[k].inherited }

RoundUp(x, align) == ((x + align - 1) \div align) * align

FieldNames == <<"f1", "f2", "f3", "f4">>

\* The fields the index records for the members k.. of d, the data before
\* them ending at byte `end`: members without a location are not recorded.
RECURSIVE FieldsOf(_, _, _)
FieldsOf(d, k, end) ==
    IF k > Len(d) THEN <<>>
    ELSE LET offset == RoundUp(end, d[k].align)
             rest == FieldsOf(d, k + 1, offset + d[k].dsize)
         IN  IF d[k].located
             THEN <<FieldData(FieldNames[k], offset, d[k].type_name, d[k].inherited)>> \o rest
             ELSE rest

RECURSIVE DataEnd(_, _, _)
DataEnd(d, k, end) ==
    IF k > Len(d) THEN end ELSE DataEnd(d, k + 1, RoundUp(end, d[k].align) + d[k].dsize)

RECURSIVE MaxAlign(_, _)
MaxAlign(d, k) == IF k > Len(d) THEN 1 ELSE Max(d[k].align, MaxAlign(d, k + 1))

SizeOf(d) == RoundUp(Max(DataEnd(d, 1, 0), 1), MaxAlign(d, 1))

KnownTypes ==
    [n \in {Ty.long, Ty.int, Ty.char, Ty.P, Ty.U, Ty.Q, Ty.E, Ty.D} |->
        CASE n = Ty.long  -> TypeData("l", 8, "BASE_TYPE", <<>>)
          [] n = Ty.int   -> TypeData("i", 4, "BASE_TYPE", <<>>)
          [] n = Ty.char  -> TypeData("c", 1, "BASE_TYPE", <<>>)
          [] n = Ty.P  -> TypeData("P", 8, "STRUCTURE",
                               <<FieldData("r", 0, Ty.int, FALSE), FieldData("s", 4, Ty.int, FALSE)>>)
          [] n = Ty.U -> TypeData("U", 8, "UNION",
                               <<FieldData("p", 0, Ty.long, FALSE), FieldData("q", 0, Ty.P, FALSE)>>)
          [] n = Ty.Q -> TypeData("Q", 16, "STRUCTURE",
                               <<FieldData("x", 0, Ty.long, FALSE), FieldData("c", 8, Ty.char, FALSE)>>)
          [] n = Ty.E -> TypeData("E", 1, "STRUCTURE", <<>>)
          [] n = Ty.D  -> TypeData("D", -1, "STRUCTURE", <<>>)]

IndexOf(d, descending) ==
    [types |-> [n \in DOMAIN KnownTypes \cup {Ty.A} |->
                   IF n = Ty.A THEN TypeData("A", SizeOf(d), "STRUCTURE", FieldsOf(d, 1, 0))
                   ELSE KnownTypes[n]],
     pointer_size |-> 8,
     hash_descending |-> descending]

Indexes == { IndexOf(d, b) : d \in Declarations, b \in BOOLEAN }

\* The type names a call site allocates.
AllocatedTypes == {Ty.A, Ty.U, Ty.D, Ty.X, Ty.longptr}

InitResolver ==
    /\ pc = "resolve" /\ IdleStore /\ IdleOrder /\ IdleBuild /\ IdleFetch /\ IdleParse
    /\ index \in Indexes
    /\ tree = NoTree /\ other = NoTree /\ result = "none" /\ hist = <<>>
    /\ prev = NoTree /\ ops = 0 /\ arg = NoArg

\* DwarfTypeResolver::ResolveTypeFromTypeName for an allocated type.
Resolve ==
    /\ pc = "resolve"
    /\ \E type_name \in AllocatedTypes :
           LET r == ResolveTypeFromTypeName(index, type_name)
           IN  /\ result' = r.status
               /\ tree' = IF r.ok THEN r.value ELSE NoTree
    /\ pc' = "resolved"
    /\ UNCHANGED <<storeVars, orderVars, other, index, hist, prev, ops, arg, buildVars, fetchVars, parseVars>>

\* The histograms a site of the tree's type comes with: one bucket per 8
\* bytes of the allocation, which is the type's size or 8 bytes more.
HistogramsFor(t) ==
    UNION { [1..n -> 0..MaxCount] : n \in {Buckets(t), Buckets(t) + 1} }

\* 2 to the power n.
RECURSIVE Pow2(_)
Pow2(n) == IF n = 0 THEN 1 ELSE 2 * Pow2(n - 1)

\* The histograms of a bulk allocation of 2..MaxBulk objects of the tree's
\* type, and of such an allocation with 8 bytes more: bucket i holds
\* c * 2^(i-1), so that a sum of buckets tells which buckets were summed.
BulkHistogramsFor(t) ==
    { [i \in 1..n |-> c * Pow2(i - 1)] :
          n \in UNION { {objects * Buckets(t), objects * Buckets(t) + 1} :
                            objects \in 2..MaxBulk },
          c \in 1..MaxCount }

\* The site's histogram is recorded on the tree just built.
RecordHistogram ==
    /\ pc = "resolved" /\ tree # NoTree
    /\ \E histogram \in HistogramsFor(tree) \cup BulkHistogramsFor(tree) :
           LET r == RecordAccessHistogram(tree, histogram, "kAccess")
           IN  /\ hist' = histogram
               /\ tree' = r.tree
               /\ result' = r.status
    /\ prev' = tree
    /\ ops' = ops + 1
    /\ pc' = "recorded"
    /\ UNCHANGED <<storeVars, orderVars, other, index, arg, buildVars, fetchVars, parseVars>>

\* One access is recorded on the tree just built.
RecordAccess ==
    /\ pc = "resolved" /\ tree # NoTree
    /\ \E offset_bytes \in 0..MaxOffset, count \in 1..MaxCount :
           LET r == TypeTree_RecordAccess(tree, offset_bytes, count, "kAccess")
           IN  /\ arg' = [offset_bytes |-> offset_bytes, count |-> count]
               /\ tree' = r.tree
               /\ result' = r.hit
    /\ prev' = tree
    /\ ops' = ops + 1
    /\ pc' = "accessed"
    /\ UNCHANGED <<storeVars, orderVars, other, index, hist, buildVars, fetchVars, parseVars>>

NextResolver == Resolve \/ RecordHistogram \/ RecordAccess

SpecResolver == InitResolver /\ [][NextResolver]_vars

(***************************************************************************)
(* A resolver-built tree on which histograms are recorded and into which   *)
(* the counts of other trees are merged.                                   *)
(***************************************************************************)
ResolvedTrees(ix) ==
    { ResolveTypeFromTypeName(ix, type_name).value :
          type_name \in { n \in AllocatedTypes : ResolveTypeFromTypeName(ix, n).ok } }

\* The indexes that agree with ix on the number of fields of A and on the
\* first of them, and on the iteration order of hash sets.
SiblingIndexes(ix) ==
    { ix2 \in Indexes :
          /\ ix2.hash_descending = ix.hash_descending
          /\ Len(ix2.types[Ty.A].fields) = Len(ix.types[Ty.A].fields)
          /\ Len(ix.types[Ty.A].fields) > 0 =>
                 ix2.types[Ty.A].fields[1] = ix.types[Ty.A].fields[1] }

\* The trees whose counts are merged into t: trees for the same type name
\* built from a sibling index, with a site's histogram recorded.
MergeSources(ix, t) ==
    UNION { { RecordAccessHistogram(o, h, "kAccess").tree : h \in SiteHistograms(o, {1}) } :
              o \in { u \in UNION { ResolvedTrees(ix2) : ix2 \in SiblingIndexes(ix) } :
                          Name(u) = Name(t) } }

InitAttribute ==
    /\ pc = "attribute" /\ IdleStore /\ IdleOrder /\ IdleBuild /\ IdleFetch /\ IdleParse
    /\ index \in Indexes
    /\ tree \in ResolvedTrees(index)
    /\ other = NoTree /\ result = "none" /\ hist = <<>> /\ prev = NoTree /\ ops = 0
    /\ arg = NoArg

RecordMore ==
    /\ pc = "attribute" /\ ops < MaxOps
    /\ \E histogram \in SiteHistograms(tree, 0..MaxCount) :
           LET r == RecordAccessHistogram(tree, histogram, "kAccess")
           IN  /\ hist' = histogram
               /\ tree' = r.tree
               /\ result' = r.status
    /\ prev' = tree
    /\ ops' = ops + 1
    /\ UNCHANGED <<pc, storeVars, orderVars, other, index, arg, buildVars, fetchVars, parseVars>>

MergeFrom ==
    /\ pc = "attribute" /\ ops < MaxOps
    /\ \E o \in MergeSources(index, tree) :
           LET r == TypeTree_MergeCounts(tree, o)
           IN  /\ other' = o
               /\ tree' = r.tree
               /\ result' = IF r.ok THEN "Ok" ELSE "InvalidArgument"
    /\ prev' = tree
    /\ ops' = ops + 1
    /\ UNCHANGED <<pc, storeVars, orderVars, hist, index, arg, buildVars, fetchVars, parseVars>>

NextAttribute == RecordMore \/ MergeFrom

SpecAttribute == InitAttribute /\ [][NextAttribute]_vars

(***************************************************************************)
(* LocalHistogramBuilder::BuildHistogram.  A site of the profile is a call *)
(* stack of one frame, whose function name is the call stack's key, and    *)
(* the type name the debug index records for an allocation in that frame;  *)
(* its histogram has one bucket per 8 bytes of the type, bucket i holding  *)
(* i.  One action is one iteration of the loop over the sites.             *)
(***************************************************************************)
StartsWith(text, prefix) ==
    /\ Len(prefix) <= Len(text)
    /\ SubSeq(text, 1, Len(prefix)) = prefix

FilterType(cfg, type_name) ==
    IF cfg.type_prefix_filter = {} THEN FALSE
    ELSE ~(\E type \in cfg.type_prefix_filter : StartsWith(type_name, type))

FilterCallstack(cfg, callstack) ==
    IF cfg.callstack_filter = {} THEN FALSE
    ELSE ~(callstack \in cfg.callstack_filter)

IsRecordType(t) == t.root.type_kind = "RECORD_TYPE"
FromContainer(t) == t.from_container

\* DwarfTypeResolver::ResolveTypeFromCallstack for a frame with a heapalloc entry.
ResolveTypeFromCallstack(ix, s) == CreateTreeFromDwarf(ix, s.type_name, FALSE, "none")

\* The statistics after a site that reached the counting of accesses.
CountSite(st, t) ==
    LET n == GetTotalAccessCount(t.root)
        a == [st EXCEPT !.total_verified = @ + 1,
                        !.total_accesses = @ + n]
        b == IF FromContainer(t)
             THEN [a EXCEPT !.container_alloc_count = @ + 1,
                            !.total_accesses_on_containers = @ + n]
             ELSE [a EXCEPT !.heap_alloc_count = @ + 1,
                            !.total_accesses_on_heapallocs = @ + n]
    IN  IF IsRecordType(t)
        THEN [b EXCEPT !.total_accesses_on_records = @ + n]
        ELSE b

\* An unresolved site that is counted as a site with a type.
Unresolved_CountsFound(s1, st) ==
    [path |-> "unresolved", stats |-> [s1 EXCEPT !.total_found_type = @ + 1],
     store |-> st, status |-> "Ok", verified |-> FALSE]

\* The iteration for a site whose type resolution failed.
Unresolved(s1, st) ==
    [path |-> "unresolved", stats |-> s1, store |-> st, status |-> "Ok", verified |-> FALSE]

\* The rest of an iteration once the histogram is recorded in the tree.
SiteRecorded(st, s4, s, recorded) ==
    LET r == StoreInsert(st, s.callstack, recorded)
    IN  [path |-> IF r.status = "Ok" THEN "inserted" ELSE "insert_error",
         stats |-> CountSite(s4, recorded), store |-> r.store, status |-> r.status,
         verified |-> Verify(recorded)]

\* The rest of an iteration once the type is resolved.
SiteResolved(cfg, st, s1, s, status_or_type_tree) ==
    IF ~status_or_type_tree.ok
    THEN Unresolved(s1, st)
    ELSE
    LET type_tree == status_or_type_tree.value
        s2 == [s1 EXCEPT !.total_found_type = @ + 1]
    IN  IF FilterType(cfg, Name(type_tree))
        THEN [path |-> "type_filtered", stats |-> s2, store |-> st, status |-> "Ok",
              verified |-> FALSE]
        ELSE
        LET s3 == [s2 EXCEPT !.total_after_filtering = @ + 1]
            s4 == IF IsRecordType(type_tree)
                  THEN [s3 EXCEPT !.total_record_count = @ + 1] ELSE s3
        IN  IF cfg.only_records /\ ~IsRecordType(type_tree)
            THEN [path |-> "not_record", stats |-> s4, store |-> st,
                  status |-> "Ok", verified |-> FALSE]
            ELSE CHOOSE done \in
                     { SiteRecorded(st, s4, s, recorded) :
                         recorded \in { RecordAccessHistogram(type_tree,
                                            [i \in 1..Buckets(type_tree) |-> i], "kAccess").tree } } : TRUE

\* One iteration of the loop: the path taken, the statistics and the store
\* after it, and the status of Insert where it was reached.
BuildSite(ix, cfg, st, stt, s) ==
    IF FilterCallstack(cfg, s.callstack)
    THEN [path |-> "callstack_filtered", stats |-> stt, store |-> st, status |-> "Ok",
          verified |-> FALSE]
    ELSE CHOOSE done \in
             { SiteResolved(cfg, st, [stt EXCEPT !.total_allocations_count = @ + 1], s, resolved) :
                 resolved \in { ResolveTypeFromCallstack(ix, s) } } : TRUE

\* The builders: no filter, a call stack filter, a type prefix filter, records only.
Configs ==
    { [type_prefix_filter |-> {}, callstack_filter |-> {}, only_records |-> FALSE],
      [type_prefix_filter |-> {}, callstack_filter |-> {"cs1"}, only_records |-> FALSE],
      [type_prefix_filter |-> {Ty.A}, callstack_filter |-> {}, only_records |-> FALSE],
      [type_prefix_filter |-> {}, callstack_filter |-> {}, only_records |-> TRUE] }

\* The debug indexes of the profiled binary: A is
\*   struct A { long f1; long f2; },  struct A { int f1 : 3; long f2; }  or
\*   struct A { char f1[4]; int f2; }.
BuildIndexes ==
    { IndexOf(d, FALSE) :
          d \in { <<Member(Ty.long, 8, 8, 8, FALSE, TRUE), Member(Ty.long, 8, 8, 8, FALSE, TRUE)>>,
                  <<Member(Ty.int, 4, 1, 4, FALSE, FALSE), Member(Ty.long, 8, 8, 8, FALSE, TRUE)>>,
                  <<Member(Ty.char4, 4, 4, 1, FALSE, TRUE), Member(Ty.int, 4, 4, 4, FALSE, TRUE)>> } }

ProfileSites == [callstack : CallStacks, type_name : AllocatedTypes]

Profiles == UNION { [1..n -> ProfileSites] : n \in 1..MaxProfile }

InitBuild ==
    /\ pc = "build" /\ IdleStore /\ IdleOrder /\ IdleFetch /\ IdleParse
    /\ tree = NoTree /\ other = NoTree /\ result = "none" /\ hist = <<>>
    /\ prev = NoTree /\ ops = 0 /\ arg = NoArg
    /\ index \in BuildIndexes
    /\ profile \in Profiles
    /\ config \in Configs
    /\ site = 0 /\ stats = NoStats /\ step = NoStep

\* The body of the loop for the next site; an error of Insert is returned.
ProcessSite ==
    /\ pc = "build" /\ site < Len(profile)
    /\ \E r \in { BuildSite(index, config, store, stats, profile[site + 1]) } :
           /\ stats' = r.stats
           /\ store' = r.store
           /\ step' = [path |-> r.path, stats |-> stats, store |-> store,
                       verified |-> r.verified]
           /\ IF r.status = "Ok"
              THEN pc' = pc /\ result' = result
              ELSE pc' = "returned" /\ result' = r.status
    /\ site' = site + 1
    /\ UNCHANGED <<lastCall, firstName, inserts, orderVars, tree, other, index, hist,
                   prev, ops, arg, profile, config, fetchVars, parseVars>>

\* The loop is over: the results are returned.
ReturnResults ==
    /\ pc = "build" /\ site = Len(profile)
    /\ pc' = "returned"
    /\ result' = "Ok"
    /\ UNCHANGED <<storeVars, orderVars, tree, other, index, hist, prev, ops, arg, buildVars, fetchVars, parseVars>>

NextBuild == ProcessSite \/ ReturnResults

SpecBuild == InitBuild /\ [][NextBuild]_vars

(***************************************************************************)
(* DwarfMetadataFetcher: Fetch, FetchWithPath, FetchDWPWithPath and        *)
(* GetCacheableType.  index is pack_.  A pointer to a TypeData is the      *)
(* epoch (the Fetch call) whose pack_ owns the object, and the type name;  *)
(* the assignment pack_ = MetadataPack() destroys the objects of the       *)
(* epoch before.  A file has one DWARF unit.                               *)
(***************************************************************************)
\* The file system: p1 and p2 are object files with 8-byte pointers that
\* both define A, p5 is an object file with 4-byte pointers, p4 is not an
\* object file; no other path exists.
Files ==
    [p \in {"p1", "p2", "p4", "p5"} |->
        CASE p = "p1" -> [object |-> TRUE, pointer_size |-> 8,
                          types |-> IndexOf(<<Member(Ty.long, 8, 8, 8, FALSE, TRUE),
                                              Member(Ty.long, 8, 8, 8, FALSE, TRUE)>>, FALSE).types]
          [] p = "p2" -> [object |-> TRUE, pointer_size |-> 8,
                          types |-> (Ty.A :> TypeData("A", 8, "STRUCTURE",
                                                      <<FieldData("f1", 0, Ty.char4, FALSE),
                                                        FieldData("f2", 4, Ty.int, FALSE)>>))
                                    @@ (Ty.B :> TypeData("B", 8, "STRUCTURE",
                                                         <<FieldData("f1", 0, Ty.long, FALSE)>>))
                                    @@ (Ty.int :> KnownTypes[Ty.int])
                                    @@ (Ty.char :> KnownTypes[Ty.char])
                                    @@ (Ty.long :> KnownTypes[Ty.long])]
          [] p = "p4" -> [object |-> FALSE]
          [] p = "p5" -> [object |-> TRUE, pointer_size |-> 4,
                          types |-> (Ty.int :> KnownTypes[Ty.int])]]

\* BinaryFileRetriever::RetrieveFile
RetrieveFile(stored_path) ==
    IF stored_path \in DOMAIN Files
    THEN [ok |-> TRUE, value |-> stored_path]
    ELSE [ok |-> FALSE, status |-> "NotFound"]

\* MetadataPack::MetadataPack
MetadataPack == [types |-> <<>>, pointer_size |-> 0, hash_descending |-> FALSE]

\* TypeData::ParseDIE on the entry of a type that may exist already: the byte
\* size is set, and a member is appended unless a field of the same offset,
\* type name and name is there.
ParseDIE(entry, parsed) ==
    LET fresh == SelectSeq(parsed.fields,
                           LAMBDA f : ~(\E i \in 1..Len(entry.fields) :
                                            /\ entry.fields[i].offset = f.offset
                                            /\ entry.fields[i].type_name = f.type_name
                                            /\ entry.fields[i].name = f.name))
    IN  [parsed EXCEPT !.size = IF parsed.size < 0 THEN entry.size ELSE parsed.size,
                       !.fields = entry.fields \o fresh]

\* MetadataPack::ParseDWARF
ParseDWARF(pack, bin_file_path) ==
    IF ~(bin_file_path \in DOMAIN Files /\ Files[bin_file_path].object)
    THEN [status |-> "Internal", pack |-> pack]
    ELSE LET file == Files[bin_file_path]
         IN  IF pack.pointer_size # 0 /\ pack.pointer_size # file.pointer_size
             THEN [status |-> "InvalidArgument", pack |-> pack]
             ELSE [status |-> "Ok",
                   pack |-> [pack EXCEPT
                       !.pointer_size = file.pointer_size,
                       !.types = [n \in DOMAIN pack.types \cup DOMAIN file.types |->
                                     IF n \notin DOMAIN file.types THEN pack.types[n]
                                     ELSE IF n \notin DOMAIN pack.types
                                     THEN ParseDIE(TypeData(file.types[n].name, -1, "", <<>>),
                                                   file.types[n])
                                     ELSE ParseDIE(pack.types[n], file.types[n])]]]

\* DwarfMetadataFetcher::ReadFromDWARF; the dwp file is looked up under the
\* build id, which is no path of the file system.
ReadFromDWARF(build_id, path, pack) ==
    LET binary_or == RetrieveFile(path)
    IN  IF binary_or.ok THEN ParseDWARF(pack, binary_or.value)
        ELSE [status |-> "Ok", pack |-> pack]

\* MetadataPack::Insert
Pack_Insert(this, that) ==
    IF DOMAIN that.types = {} THEN [status |-> "Ok", pack |-> this]
    ELSE IF this.pointer_size # 0 /\ this.pointer_size # that.pointer_size
    THEN [status |-> "Internal", pack |-> this]
    ELSE [status |-> "Ok",
          pack |-> [this EXCEPT
              !.pointer_size = that.pointer_size,
              !.types = [n \in DOMAIN this.types \cup DOMAIN that.types |->
                            IF n \in DOMAIN this.types THEN this.types[n]
                            ELSE that.types[n]]]]

\* The loop of FetchWithPath over the binaries from the i-th on.
RECURSIVE FetchWithPathFrom(_, _, _, _)
FetchWithPathFrom(pack_, bins, i, force_update_cache) ==
    IF i > Len(bins) THEN [status |-> "Ok", pack |-> pack_]
    ELSE LET read == IF force_update_cache
                     THEN ReadFromDWARF(bins[i].build_id, bins[i].path, MetadataPack)
                     ELSE [status |-> "Ok", pack |-> MetadataPack]
         IN  IF read.status # "Ok" THEN [status |-> read.status, pack |-> pack_]
             ELSE LET inserted == Pack_Insert(pack_, read.pack)
                  IN  IF inserted.status # "Ok" THEN inserted
                      ELSE FetchWithPathFrom(inserted.pack, bins, i + 1, force_update_cache)

\* The loop of FetchDWPWithPath: every file is parsed into pack_ itself.
RECURSIVE FetchDWPWithPathFrom(_, _, _)
FetchDWPWithPathFrom(pack_, bins, i) ==
    IF i > Len(bins) THEN [status |-> "Ok", pack |-> pack_]
    ELSE LET parsed == ParseDWARF(pack_, bins[i].path)
         IN  IF parsed.status # "Ok" THEN parsed
             ELSE FetchDWPWithPathFrom(parsed.pack, bins, i + 1)

\* The binaries a Fetch is called with, in the order the hash set yields them.
BinaryInfos ==
    { [build_id |-> "b1", path |-> "p1"], [build_id |-> "b2", path |-> "p2"],
      [build_id |-> "b3", path |-> "p3"], [build_id |-> "b4", path |-> "p4"],
      [build_id |-> "b5", path |-> "p5"] }

BinaryLists ==
    { bins \in UNION { [1..n -> BinaryInfos] : n \in 1..2 } :
          \A i, j \in 1..Len(bins) : i # j => bins[i] # bins[j] }

InitFetch ==
    /\ pc = "fetch" /\ IdleStore /\ IdleOrder /\ IdleBuild /\ IdleParse
    /\ tree = NoTree /\ other = NoTree /\ result = "none" /\ hist = <<>>
    /\ prev = NoTree /\ ops = 0 /\ arg = NoArg
    /\ index = MetadataPack
    /\ cache = <<>> /\ epoch = 0 /\ fetched = NoFetch

FetchCall(op, bins, r) ==
    /\ pc = "fetch" /\ epoch < MaxFetches
    /\ index' = r.pack
    /\ epoch' = epoch + 1
    /\ fetched' = [op |-> op, bins |-> bins, status |-> r.status]
    /\ result' = r.status
    /\ arg' = NoArg
    /\ UNCHANGED <<pc, storeVars, orderVars, tree, other, hist, prev, ops, buildVars, cache, parseVars>>

FetchWithPath ==
    \E bins \in BinaryLists, force_update_cache \in BOOLEAN :
        FetchCall(IF force_update_cache THEN "FetchWithPath" ELSE "FetchWithPath (cached)",
                  bins, FetchWithPathFrom(MetadataPack, bins, 1, force_update_cache))

FetchDWPWithPath ==
    \E bins \in BinaryLists :
        FetchCall("FetchDWPWithPath", bins, FetchDWPWithPathFrom(MetadataPack, bins, 1))

\* Fetch looks every build id up under the empty path.
Fetch ==
    \E bins \in BinaryLists :
        LET build_ids_and_paths == [i \in 1..Len(bins) |->
                                       [build_id |-> bins[i].build_id, path |-> ""]]
        IN  FetchCall("Fetch", build_ids_and_paths,
                      FetchWithPathFrom(MetadataPack, build_ids_and_paths, 1, TRUE))

\* What a read through a pointer into a destroyed pack can yield.
StaleReads ==
    { Files[p].types[n] : p \in {"p1", "p2"}, n \in {Ty.A} } \cup {[garbage |-> TRUE]}

LookupNames == {Ty.A, Ty.B, Ty.X}

GetCacheableType ==
    /\ pc = "fetch" /\ epoch > 0
    /\ \E type_name \in LookupNames :
           /\ arg' = [type_name |-> type_name]
           /\ IF type_name \in DOMAIN cache
              THEN /\ cache' = cache
                   /\ \E data \in IF cache[type_name].epoch = epoch
                                  THEN {index.types[type_name]} ELSE StaleReads :
                          result' = [ok |-> TRUE, value |-> cache[type_name], data |-> data]
              ELSE LET type_data_or_err == GetType(index, type_name)
                   IN  IF ~type_data_or_err.ok
                       THEN /\ cache' = cache
                            /\ result' = [ok |-> FALSE, status |-> type_data_or_err.status]
                       ELSE LET type_data == [epoch |-> epoch, type_name |-> type_name]
                            IN  /\ cache' = (type_name :> type_data) @@ cache
                                /\ result' = [ok |-> TRUE, value |-> type_data,
                                              data |-> type_data_or_err.value]
    /\ UNCHANGED <<pc, storeVars, orderVars, tree, other, index, hist, prev, ops,
                   buildVars, epoch, fetched, parseVars>>

NextFetch == FetchWithPath \/ FetchDWPWithPath \/ Fetch \/ GetCacheableType

SpecFetch == InitFetch /\ [][NextFetch]_vars

(***************************************************************************)
(* Parsing the DWARF units with several workers.  A worker takes the next  *)
(* DIE below a unit DIE and runs TypeData::VisitChildDIE on the root type  *)
(* space with it; every access to root_space->types and every operation   *)
(* on the mutex of RootTypeData is one step.  A read of the map that races *)
(* with a write to it can yield either answer.                             *)
(***************************************************************************)
Workers == {"w1", "w2"}

\* The DIEs of the units: types and subprograms at the root level.
DieKinds ==
    { [tag |-> "DW_TAG_structure_type", child_name |-> "T1"],
      [tag |-> "DW_TAG_structure_type", child_name |-> "T2"],
      [tag |-> "DW_TAG_subprogram", child_name |-> "F1"] }

NoDie == [tag |-> "none", child_name |-> ""]

IdleWorker == [pc |-> "next", die |-> NoDie, contains |-> FALSE]

InitParse ==
    /\ pc = "parse" /\ IdleStore /\ IdleOrder /\ IdleTree /\ IdleBuild /\ IdleFetch
    /\ wk = [w \in Workers |-> IdleWorker]
    /\ dies \in UNION { [1..n -> DieKinds] : n \in 1..MaxDies }
    /\ mutex = "none"
    /\ root_types = [n \in {} |-> 0]

\* A worker is about to write root_space->types.
Mutating(w) == wk[w].pc \in {"add", "insert"}

Others == <<pc, storeVars, orderVars, treeVars, buildVars, fetchVars>>

\* A worker of the pool takes the next DIE.
TakeDie(w) ==
    /\ pc = "parse" /\ wk[w].pc = "next" /\ dies # <<>>
    /\ wk' = [wk EXCEPT ![w] = [pc |-> "contains", die |-> Head(dies), contains |-> FALSE]]
    /\ dies' = Tail(dies)
    /\ UNCHANGED <<mutex, root_types, Others>>

\* types.contains(child_name)
Contains(w) ==
    /\ pc = "parse" /\ wk[w].pc = "contains"
    /\ \E seen \in IF \E o \in Workers \ {w} : Mutating(o)
                   THEN BOOLEAN
                   ELSE {wk[w].die.child_name \in DOMAIN root_types} :
           wk' = [wk EXCEPT ![w].contains = seen,
                            ![w].pc = IF seen THEN "parse"
                                      ELSE IF wk[w].die.tag = "DW_TAG_subprogram"
                                      THEN "insert" ELSE "lock"]
    /\ UNCHANGED <<dies, mutex, root_types, Others>>

\* RootTypeData::AddType: m.Lock()
Lock(w) ==
    /\ pc = "parse" /\ wk[w].pc = "lock" /\ mutex = "none"
    /\ mutex' = w
    /\ wk' = [wk EXCEPT ![w].pc = "add"]
    /\ UNCHANGED <<dies, root_types, Others>>

\* The number of objects stored under name, one more.
Stored(types, name) ==
    (name :> (IF name \in DOMAIN types THEN types[name] + 1 ELSE 1)) @@ types

\* TypeData::AddType: types[type_name] = std::move(type)
AddType(w) ==
    /\ pc = "parse" /\ wk[w].pc = "add"
    /\ root_types' = Stored(root_types, wk[w].die.child_name)
    /\ wk' = [wk EXCEPT ![w].pc = "unlock"]
    /\ UNCHANGED <<dies, mutex, Others>>

\* RootTypeData::AddType: m.Unlock()
Unlock(w) ==
    /\ pc = "parse" /\ wk[w].pc = "unlock"
    /\ mutex' = "none"
    /\ wk' = [wk EXCEPT ![w].pc = "parse"]
    /\ UNCHANGED <<dies, root_types, Others>>

\* DW_TAG_subprogram: types[child_name] = std::make_unique<TypeData>()
InsertSubprogram(w) ==
    /\ pc = "parse" /\ wk[w].pc = "insert"
    /\ root_types' = Stored(root_types, wk[w].die.child_name)
    /\ wk' = [wk EXCEPT ![w].pc = "parse"]
    /\ UNCHANGED <<dies, mutex, Others>>

\* types[child_name]->ParseDIE(die, should_read_subprogram, context)
ParseChild(w) ==
    /\ pc = "parse" /\ wk[w].pc = "parse"
    /\ wk' = [wk EXCEPT ![w].pc = "next"]
    /\ UNCHANGED <<dies, mutex, root_types, Others>>

NextParse ==
    \E w \in Workers :
        \/ TakeDie(w) \/ Contains(w) \/ Lock(w) \/ AddType(w) \/ Unlock(w)
        \/ InsertSubprogram(w) \/ ParseChild(w)

SpecParse == InitParse /\ [][NextParse]_vars

(***************************************************************************)
(* Field lookup: DwarfMetadataFetcher::GetField on the debug indexes.      *)
(***************************************************************************)
GetField(ix, type_name, offset) ==
    LET type_data_or_err == GetType(ix, type_name)
    IN  IF ~type_data_or_err.ok
        THEN [ok |-> FALSE, status |-> type_data_or_err.status]
        ELSE LET type_data == type_data_or_err.value
                 offset_idx == OffsetIdx(type_data)
                 \* upper_bound(offset), then it--: the entries at or below offset
                 below == { o \in DOMAIN offset_idx : o <= offset }
             IN  IF offset < 0 \/ offset >= type_data.size
                 THEN [ok |-> FALSE, status |-> "InvalidArgument"]
                 ELSE IF type_data.fields = <<>> \/ DOMAIN offset_idx = {}
                 THEN [ok |-> FALSE, status |-> "NotFound"]
                 ELSE IF below = {}
                 THEN [ok |-> FALSE, status |-> "NotFound"]
                 ELSE LET it == CHOOSE o \in below : \A p \in below : p <= o
                      IN  IF Cardinality(offset_idx[it]) > 1
                          THEN [ok |-> FALSE, status |-> "NotFound"]
                          ELSE [ok |-> TRUE, status |-> "ok",
                                value |-> type_data.fields[(CHOOSE i \in offset_idx[it] : TRUE) + 1]]

\* The type names GetField is asked about: records, a base type, a type
\* without an entry.
FieldLookupTypes == {Ty.A, Ty.P, Ty.U, Ty.Q, Ty.long, Ty.X}

InitField ==
    /\ pc = "field" /\ IdleStore /\ IdleOrder /\ IdleBuild /\ IdleFetch /\ IdleParse
    /\ index \in Indexes
    /\ tree = NoTree /\ other = NoTree /\ result = "none" /\ hist = <<>>
    /\ prev = NoTree /\ ops = 0 /\ arg = NoArg

\* One call of GetField; arg keeps the call and what it returned.
GetFieldCall ==
    /\ pc = "field"
    /\ \E type_name \in FieldLookupTypes, offset \in (-1)..MaxOffset :
           LET r == GetField(index, type_name, offset)
           IN  /\ arg' = [type_name |-> type_name, offset |-> offset, field |-> r]
               /\ result' = r.status
    /\ pc' = "looked_up"
    /\ UNCHANGED <<storeVars, orderVars, tree, other, index, hist, prev, ops, buildVars, fetchVars, parseVars>>

NextField == GetFieldCall

SpecField == InitField /\ [][NextField]_vars

(***************************************************************************)
(* ObjectLayout descriptions and the trees built from them.  An            *)
(* ObjectLayout is [properties, subobjects]; a field of the properties     *)
(* that a description leaves out has its default value (0, "").            *)
(***************************************************************************)
Properties(name, type_name, kind, type_kind, size_bits, multiplicity) ==
    [name |-> name, type_name |-> type_name, kind |-> kind, type_kind |-> type_kind,
     offset_bits |-> 0, size_bits |-> size_bits, multiplicity |-> multiplicity]

ObjectLayout(properties, subobjects) ==
    [properties |-> properties, subobjects |-> subobjects]

CreateNodeFromObjectLayout(object_layout, has_parent, parent_global_offset) ==
    Node(object_layout.properties.name, object_layout.properties.type_name,
         object_layout.properties.offset_bits, object_layout.properties.size_bits,
         object_layout.properties.multiplicity, object_layout.properties.type_kind,
         object_layout.properties.kind,
         IF ~has_parent THEN 0
         ELSE parent_global_offset + object_layout.properties.offset_bits,
         NoCounters, FALSE)

RECURSIVE CreateChildFromSuboject(_, _)
CreateChildFromSuboject(this, object_layout) ==
    [this EXCEPT !.children = @ \o
        [i \in 1..Len(object_layout.subobjects) |->
            CreateChildFromSuboject(
                CreateNodeFromObjectLayout(object_layout.subobjects[i], TRUE, GetGlobalOffsetBits(this)),
                object_layout.subobjects[i])]]

CreateTreeFromObjectLayout(object_layout, root_type_name, container_name) ==
    TypeTree(CreateChildFromSuboject(CreateNodeFromObjectLayout(object_layout, FALSE, 0), object_layout),
             root_type_name, container_name # "", container_name)

\* The node's own ObjectLayout: its properties, no subobjects.
GetObjectLayout(n) ==
    ObjectLayout([name |-> n.name, type_name |-> n.type_name, kind |-> n.kind,
                  type_kind |-> n.type_kind, offset_bits |-> n.offset_bits,
                  size_bits |-> n.size_bits, multiplicity |-> n.multiplicity], <<>>)

\* The children's own layouts only, nothing below them.
CreateObjectLayoutFromChildren_OneLevel(this, object_layout) ==
    [object_layout EXCEPT !.subobjects = @ \o
        [i \in 1..NumChildren(this) |-> GetObjectLayout(this.children[i])]]

RECURSIVE CreateObjectLayoutFromChildren(_, _)
CreateObjectLayoutFromChildren(this, object_layout) ==
    [object_layout EXCEPT !.subobjects = @ \o
        [i \in 1..NumChildren(this) |->
            CreateObjectLayoutFromChildren(this.children[i], GetObjectLayout(this.children[i]))]]

CreateObjectLayoutFromTree(type_tree) ==
    CreateObjectLayoutFromChildren(type_tree.root, GetObjectLayout(type_tree.root))

(***************************************************************************)
(* TypeTree::MergeTreeIntoThis.                                            *)
(***************************************************************************)
\* The path (child positions from the root) of the first node below n, in
\* depth-first order, whose type name is type_name; <<>> when there is none.
RECURSIVE FindNodeWithTypeNameFrom(_, _, _)
FindNodeWithTypeNameFrom(n, type_name, i) ==
    IF i > NumChildren(n) THEN <<>>
    ELSE IF n.children[i].type_name = type_name THEN <<i>>
    ELSE LET res == FindNodeWithTypeNameFrom(n.children[i], type_name, 1)
         IN  IF res # <<>> THEN <<i>> \o res
             ELSE FindNodeWithTypeNameFrom(n, type_name, i + 1)

FindNodeWithTypeName(n, type_name) == FindNodeWithTypeNameFrom(n, type_name, 1)

RECURSIVE NodeAt(_, _)
NodeAt(n, path) == IF path = <<>> THEN n ELSE NodeAt(n.children[Head(path)], Tail(path))

RECURSIVE WithNodeAt(_, _, _)
WithNodeAt(n, path, m) ==
    IF path = <<>> THEN m
    ELSE [n EXCEPT !.children[Head(path)] = WithNodeAt(@, Tail(path), m)]

\* A copy of the values in the node without the children.
CopyNode(node) ==
    Node(node.name, node.type_name, node.offset_bits, node.size_bits, node.multiplicity,
         node.type_kind, node.kind, node.global_offset, node.access_counters, FALSE)

RECURSIVE Node_MergeTreeIntoThis(_, _, _)
Node_MergeTreeIntoThis(this, other_node, starting_offset) ==
    [this EXCEPT !.children = @ \o
        [i \in 1..NumChildren(other_node) |->
            Node_MergeTreeIntoThis(CopyNode(other_node.children[i]), other_node.children[i], starting_offset)]]

RECURSIVE BuildSizesBottomUp(_)
BuildSizesBottomUp(n) ==
    LET kids == [i \in 1..NumChildren(n) |-> BuildSizesBottomUp(n.children[i])]
        built == [n EXCEPT !.children = kids]
    IN  IF GetFullSizeBits(built) = 0
        THEN [built EXCEPT !.size_bits = SumSeq([i \in 1..Len(kids) |-> GetFullSizeBits(kids[i])])]
        ELSE built

\* The children i.. of n placed one after the other from curr_offset on.
RECURSIVE InferOffsetsFromSizes(_)
RECURSIVE InferOffsetsOfChildren(_, _, _)
InferOffsetsOfChildren(n, i, curr_offset) ==
    IF i > NumChildren(n) THEN <<>>
    ELSE LET child == [n.children[i] EXCEPT !.global_offset = n.global_offset + curr_offset,
                                            !.offset_bits = curr_offset]
         IN  <<InferOffsetsFromSizes(child)>>
                 \o InferOffsetsOfChildren(n, i + 1, curr_offset + GetFullSizeBits(child))

InferOffsetsFromSizes(n) == [n EXCEPT !.children = InferOffsetsOfChildren(n, 1, 0)]

TypeTree_MergeTreeIntoThis(this, other_tree) ==
    LET path == FindNodeWithTypeName(this.root, Name(other_tree))
    IN  IF path = <<>> THEN [ok |-> FALSE, status |-> "NotFound", value |-> this]
        ELSE IF NumChildren(NodeAt(this.root, path)) # 0
        THEN [ok |-> FALSE, status |-> "InvalidArgument", value |-> this]
        ELSE LET merge_node == NodeAt(this.root, path)
                 merged == Node_MergeTreeIntoThis(merge_node, other_tree.root, GetGlobalOffsetBits(merge_node))
             IN  [ok |-> TRUE, status |-> "ok",
                  value |-> [this EXCEPT !.root =
                      InferOffsetsFromSizes(BuildSizesBottomUp(WithNodeAt(this.root, path, merged)))]]

(***************************************************************************)
(* The synthetic SwissMap backing array                                    *)
(* (TypeTreeContainerBlueprints::GetSwissMapTemplate and the SwissMap      *)
(* branch of DwarfTypeResolver::ResolveTypeFromResolutionStrategy).        *)
(***************************************************************************)
\* A number as absl::Substitute prints it.
RECURSIVE Decimal(_)
Decimal(n) ==
    IF n < 0 THEN <<"-">> \o Decimal(-n)
    ELSE IF n < 10 THEN <<CHOOSE ch \in Digits : DigitValue(ch) = n>>
    ELSE Decimal(n \div 10) \o Decimal(n % 10)

SwissMapCapacity_NoGrowthLeft(slot_type_size, size_t_size, kWidth, request_size) ==
    Div(request_size - (kWidth - 1) * 8, slot_type_size + 8)

SwissMapCapacity(slot_type_size, size_t_size, kWidth, request_size) ==
    Div(request_size - (kWidth - 1) * 8 - size_t_size, slot_type_size + 8)

\* Sizes are in bits.
GetSwissMapTemplate(slot_type_name, slot_type_size, Alignment, size_t_size, kWidth, request_size, has_hash_table_z, hashtablez_handle_size) ==
    LET capacity == SwissMapCapacity(slot_type_size, size_t_size, kWidth, request_size)
        \* has_hash_table_z = false: the handle is never part of the layout
        metadata_size == size_t_size + (capacity + kWidth) * 8
        metadata_plus_padding == RoundUp(metadata_size, Alignment * 8)
        padding_size == metadata_plus_padding - metadata_size
        ctrl_t == <<"ctrl_t">>
        elements(type_name, type_kind, size_bits, multiplicity) ==
            ObjectLayout(Properties("[_]", type_name, "ARRAY_ELEMENTS", type_kind, size_bits, multiplicity), <<>>)
        array(name, type_name, multiplicity, element) ==
            ObjectLayout(Properties(name, type_name \o <<"[">> \o Decimal(multiplicity) \o <<"]">>,
                                    "FIELD", "ARRAY_TYPE", 0, 1), <<element>>)
    IN  ObjectLayout(
            Properties(<<"BackingArray", "<">> \o slot_type_name \o <<">">>,
                       <<"BackingArray", "<">> \o slot_type_name \o <<">">>,
                       "BASE", "RECORD_TYPE", 0, 1),
            <<ObjectLayout(Properties("growth_left", <<"size_t">>, "FIELD", "BUILTIN_TYPE", size_t_size, 1), <<>>),
              array("ctrl", ctrl_t, capacity, elements(ctrl_t, "BUILTIN_TYPE", 8, capacity)),
              ObjectLayout(Properties("sentinel", ctrl_t, "FIELD", "ARRAY_TYPE", 8, 1), <<>>),
              array("clones", ctrl_t, kWidth - 1, elements(ctrl_t, "BUILTIN_TYPE", 8, kWidth - 1))>>
            \o (IF padding_size > 0
                THEN <<ObjectLayout(Properties("", <<>>, "PADDING", "PADDING_TYPE", padding_size, 1), <<>>)>>
                ELSE <<>>)
            \o <<array("slots", slot_type_name, capacity,
                       elements(slot_type_name, "RECORD_TYPE", slot_type_size, capacity))>>)

WrapType(outer_type, inner_type) ==
    <<outer_type, "<">> \o inner_type \o (IF EndsWith(inner_type, <<">">>) THEN <<" ", ">">> ELSE <<">">>)

\* The SwissMap branch once the slot type's tree (type_tree) is built; the
\* value also keeps the tree that was synthesized (outer_tree).
ResolveSwissMap(type_tree, request_size, is_local, pointer_size) ==
    IF is_local
    THEN [ok |-> TRUE, status |-> "ok", value |-> type_tree, outer_tree |-> NoTree]
    ELSE LET template_object_layout ==
                 GetSwissMapTemplate(Name(type_tree), GetFullSizeBits(type_tree.root),
                                     8, 64, 16, request_size * 8, FALSE, pointer_size * 8)
             outer_tree == CreateTreeFromObjectLayout(template_object_layout,
                               WrapType("raw_hash_set", Name(type_tree)), "raw_hash_set")
             merged == TypeTree_MergeTreeIntoThis(outer_tree, type_tree)
         IN  IF ~merged.ok
             THEN [ok |-> FALSE, status |-> merged.status, value |-> NoTree, outer_tree |-> merged.value]
             ELSE IF request_size # GetFullSizeBytes(merged.value.root)
             THEN [ok |-> FALSE, status |-> "Internal", value |-> NoTree, outer_tree |-> merged.value]
             ELSE [ok |-> TRUE, status |-> "ok", value |-> merged.value, outer_tree |-> merged.value]

\* The trees of the slot types: a 2-byte builtin, a 2-byte record of two
\* chars, an 8-byte builtin and the 16-byte record A.
SlotTrees ==
    { TypeTree(Leaf("s", <<"s">>, 0, 16, 1, "BUILTIN_TYPE"), <<"s">>, TRUE, "flat_hash_set"),
      TypeTree(WithChildren(Leaf("P2", <<"P2">>, 0, 16, 1, "RECORD_TYPE"),
                   << Leaf("a", Ty.char, 0, 8, 1, "BUILTIN_TYPE"),
                      Leaf("b", Ty.char, 8, 8, 1, "BUILTIN_TYPE") >>),
               <<"P2">>, TRUE, "flat_hash_set"),
      TypeTree(LayoutB, Ty.B, TRUE, "flat_hash_set"),
      TypeTree(LayoutLL, Ty.A, TRUE, "flat_hash_set") }

InitSwiss ==
    /\ pc = "swiss" /\ IdleStore /\ IdleOrder /\ IdleBuild /\ IdleFetch /\ IdleParse
    /\ tree \in SlotTrees
    /\ index = [null |-> TRUE]
    /\ other = NoTree /\ result = "none" /\ hist = <<>>
    /\ prev = NoTree /\ ops = 0 /\ arg = NoArg

\* One resolution of a SwissMap backing array allocation of request_size
\* bytes; tree is the slot type's tree before and the returned tree after,
\* other the synthesized tree.
ResolveBackingArray ==
    /\ pc = "swiss"
    /\ \E request_size \in 0..MaxRequest, is_local \in BOOLEAN :
           LET r == ResolveSwissMap(tree, request_size, is_local, 8)
           IN  /\ arg' = [request_size |-> request_size, is_local |-> is_local, slot |-> tree]
               /\ result' = r.status
               /\ tree' = r.value
               /\ other' = r.outer_tree
    /\ pc' = "swiss_resolved"
    /\ UNCHANGED <<storeVars, orderVars, index, hist, prev, ops, buildVars, fetchVars, parseVars>>

NextSwiss == ResolveBackingArray

SpecSwiss == InitSwiss /\ [][NextSwiss]_vars

(***************************************************************************)
(* ObjectLayout -> TypeTree -> ObjectLayout.                               *)
(***************************************************************************)
\* Properties as descriptions carry them: an array, its elements, a padding
\* placed at an offset.
PropertiesPool ==
    { Properties("xs", Ty.char16, "FIELD", "ARRAY_TYPE", 128, 1),
      Properties("[_]", Ty.char, "ARRAY_ELEMENTS", "BUILTIN_TYPE", 8, 16),
      [Properties("", <<>>, "PADDING", "PADDING_TYPE", 0, 1) EXCEPT !.offset_bits = 64] }

\* The descriptions: up to MaxSubobjects subobjects, each with up to two
\* subobjects of its own.
ObjectLayouts ==
    LET leaves == { ObjectLayout(p, <<>>) : p \in PropertiesPool }
        inner == { ObjectLayout(p, s) :
                     p \in PropertiesPool,
                     s \in {<<>>} \cup { <<l>> : l \in leaves } \cup (leaves \X leaves) }
    IN  { ObjectLayout(p, s) :
            p \in PropertiesPool,
            s \in UNION { [1..n -> inner] : n \in 0..MaxSubobjects } }

InitLayout ==
    /\ pc = "layout" /\ IdleStore /\ IdleOrder /\ IdleBuild /\ IdleFetch /\ IdleParse
    /\ arg \in { [object_layout |-> l, exported |-> NoArg] : l \in ObjectLayouts }
    /\ index = [null |-> TRUE]
    /\ tree = NoTree /\ other = NoTree /\ result = "none" /\ hist = <<>>
    /\ prev = NoTree /\ ops = 0

\* TypeTree::CreateTreeFromObjectLayout on the description.
CreateTree ==
    /\ pc = "layout"
    /\ tree' = CreateTreeFromObjectLayout(arg.object_layout, arg.object_layout.properties.type_name, "")
    /\ pc' = "tree_built"
    /\ UNCHANGED <<storeVars, orderVars, other, result, index, hist, prev, ops, arg, buildVars, fetchVars, parseVars>>

\* TypeTree::CreateObjectLayoutFromTree on the tree built.
ExportLayout ==
    /\ pc = "tree_built"
    /\ arg' = [arg EXCEPT !.exported = CreateObjectLayoutFromTree(tree)]
    /\ pc' = "exported"
    /\ UNCHANGED <<storeVars, orderVars, tree, other, result, index, hist, prev, ops, buildVars, fetchVars, parseVars>>

NextLayout == CreateTree \/ ExportLayout

SpecLayout == InitLayout /\ [][NextLayout]_vars

(***************************************************************************)
(* DwarfTypeResolver::ResolveFieldConflicts on records whose fields share  *)
(* an offset.                                                              *)
(***************************************************************************)
\* The types of the conflicting fields: long (8 bytes, no fields), char and
\* the empty record E (1 byte, no fields), W = struct { char a, b, c; }
\* (3 bytes, 3 fields), P (8 bytes, 2 fields); X has no entry.
ConflictTypes ==
    [n \in {Ty.long, Ty.char, Ty.E, Ty.P, <<"W">>} |->
        IF n = <<"W">>
        THEN TypeData("W", 3, "STRUCTURE",
                 <<FieldData("a", 0, Ty.char, FALSE), FieldData("b", 1, Ty.char, FALSE),
                   FieldData("c", 2, Ty.char, FALSE)>>)
        ELSE KnownTypes[n]]

\* The k-th field of A, at offset 0.
ConflictFields(k) ==
    { FieldData(name, 0, type_name, inherited) :
        name \in {FieldNames[k], "_" \o FieldNames[k]},
        type_name \in DOMAIN ConflictTypes \cup {Ty.X},
        inherited \in BOOLEAN }

\* The records A: 2..MaxFields fields, all at offset 0.
ConflictRecords ==
    { TypeData("A", 8, "STRUCTURE", fields) :
        fields \in UNION { { f \in [1..n -> UNION { ConflictFields(k) : k \in 1..n }] :
                               \A k \in 1..n : f[k] \in ConflictFields(k) } :
                           n \in 2..MaxFields } }

InitConflict ==
    /\ pc = "conflict" /\ IdleStore /\ IdleOrder /\ IdleBuild /\ IdleFetch /\ IdleParse
    /\ index \in { [types |-> (Ty.A :> a) @@ ConflictTypes, pointer_size |-> 8,
                    hash_descending |-> b] : a \in ConflictRecords, b \in BOOLEAN }
    /\ tree = NoTree /\ other = NoTree /\ result = "none" /\ hist = <<>>
    /\ prev = NoTree /\ ops = 0 /\ arg = NoArg

\* One call of ResolveFieldConflicts on A; arg keeps what it returned.
ResolveConflicts ==
    /\ pc = "conflict"
    /\ \E r \in { ResolveFieldConflicts(index, index.types[Ty.A]) } :
           /\ arg' = [resolved_fields |-> r.value]
           /\ result' = IF r.ok THEN "ok" ELSE "Internal"
    /\ pc' = "conflict_resolved"
    /\ UNCHANGED <<storeVars, orderVars, tree, other, index, hist, prev, ops, buildVars, fetchVars, parseVars>>

NextConflict == ResolveConflicts

SpecConflict == InitConflict /\ [][NextConflict]_vars

\* ---------------------------------------------------------------------
\* Container resolution strategy (type_resolver.cc).  Function names and
\* type names are sequences of tokens; a prefix test is StartsWith on the
\* tokens and a substring test is membership of a token.
\* ---------------------------------------------------------------------
kSTLContainerTypes == { <<"std::_Vector_base">> }
kSTLContainerLeafCheckTypes == { <<"std::vector">> }
kSmartPointersTypes == { <<"_ZSt11make_unique">> }
kADTContainerTypes == { <<"llvm::StringMap<">> }
kADTDenseContainerTypes == { <<"llvm::DenseMapBase">> }
kCharContainerTypesLeafFrame == { <<"std::basic_string">> }
kABSLContainerSwissMapTypes == { <<"absl::container_internal::raw_hash_set<">> }
kABSLContainerFlatHashTypes == { <<"absl::container_internal::FlatHashSetPolicy">> }
kABSLContainerBtreeTypes == { <<"absl::container_internal::btree<">> }
kSpecialAllocatingFunctions == { <<"std::get_temporary_buffer">> }
kAllocatorWrappers == { <<"std::allocator">> }
kMemprofInsertedFunctions == { "__memprof_ctrl_alloc" }

\* std::optional: nullopt, or a value.
nullopt == [has_value |-> FALSE]
Optional(value) == [has_value |-> TRUE, value |-> value]

StartsWithAnyOf(str, keywords) ==
    IF \E k \in keywords : StartsWith(str, k)
    THEN Optional(CHOOSE k \in keywords : StartsWith(str, k))
    ELSE nullopt

\* llvm::itaniumDemangle without parameters: a name that is not mangled
\* gives no result, a mangled one loses its "_Z".
itaniumDemangle(func_name) ==
    IF Len(func_name) > 0 /\ func_name[1] = "_Z" THEN Optional(Tail(func_name)) ELSE nullopt

StrContains(func_name, memprof) == \E i \in 1..Len(func_name) : func_name[i] = memprof

RECURSIVE CallStackContainsMemprof(_, _)
CallStackContainsMemprof(callstack, f) ==
    IF f > Len(callstack) THEN nullopt
    ELSE IF \E memprof \in kMemprofInsertedFunctions :
                StrContains(callstack[f].function_name, memprof)
         THEN Optional(callstack[f].function_name)
         ELSE CallStackContainsMemprof(callstack, f + 1)

ContainerResolutionStrategy(container_name, func_name, container_type, lookup_type) ==
    [ok |-> TRUE, container_name |-> container_name, func_name |-> func_name,
     container_type |-> container_type, lookup_type |-> lookup_type]
StrategyError(code) == [ok |-> FALSE, code |-> code]
Returned(strategy) == [done |-> TRUE, value |-> strategy]

\* The loop over the formal parameters of one frame, from parameter k on.
RECURSIVE ScanFormalParams(_, _, _, _, _, _)
ScanFormalParams(ix, callstack, func_name, formal_params, k, st) ==
    IF k > Len(formal_params) THEN [done |-> FALSE, st |-> st]
    ELSE
    LET formal_param == formal_params[k]
        st1 == IF /\ StartsWithAnyOf(formal_param, kAllocatorWrappers).has_value
                  /\ ~st.has_seen_alloc
               THEN [st EXCEPT !.fallthrough =
                        ContainerResolutionStrategy(<<"unknown">>, func_name,
                                                    "kDefaultStrategy", formal_param)]
               ELSE st
    IN  IF st.is_leaf /\ StartsWithAnyOf(formal_param, kSTLContainerLeafCheckTypes).has_value
        THEN Returned(ContainerResolutionStrategy(
                 StartsWithAnyOf(formal_param, kSTLContainerLeafCheckTypes).value, func_name,
                 "kLeafContainerGWPStrategy", formal_param))
        ELSE IF StartsWithAnyOf(formal_param, kSTLContainerTypes).has_value
        THEN Returned(ContainerResolutionStrategy(
                 StartsWithAnyOf(formal_param, kSTLContainerTypes).value,
                 callstack[1].function_name, "kAllocatorAllocate", <<>>))
        ELSE IF StartsWithAnyOf(formal_param, kADTContainerTypes).has_value
        THEN Returned(ContainerResolutionStrategy(
                 StartsWithAnyOf(formal_param, kADTContainerTypes).value, func_name,
                 "kADTContainer", formal_param))
        ELSE IF StartsWithAnyOf(formal_param, kADTDenseContainerTypes).has_value
        THEN Returned(ContainerResolutionStrategy(
                 StartsWithAnyOf(formal_param, kADTDenseContainerTypes).value, func_name,
                 "kADTDenseContainer", formal_param))
        ELSE IF StartsWithAnyOf(formal_param, kABSLContainerSwissMapTypes).has_value
        THEN LET container_type == StartsWithAnyOf(formal_param, kABSLContainerSwissMapTypes).value
             IN  IF formal_param \notin DOMAIN ix.types
                 THEN Returned(ContainerResolutionStrategy(
                          container_type, callstack[1].function_name,
                          "kAbslAllocatorAllocate", formal_param))
                 ELSE IF ix.types[formal_param].formal_parameters = <<>>
                 THEN Returned(StrategyError("NotFound"))
                 ELSE IF StartsWithAnyOf(ix.types[formal_param].formal_parameters[1],
                                         kABSLContainerFlatHashTypes).has_value
                 THEN Returned(ContainerResolutionStrategy(
                          container_type, func_name,
                          "kAbseilContainerSwissMapFlatHash", formal_param))
                 ELSE Returned(ContainerResolutionStrategy(
                          container_type, func_name,
                          "kAbseilContainerSwissMapNodeHash", formal_param))
        ELSE IF StartsWithAnyOf(formal_param, kABSLContainerBtreeTypes).has_value
        THEN Returned(ContainerResolutionStrategy(
                 StartsWithAnyOf(formal_param, kABSLContainerBtreeTypes).value, func_name,
                 "kAbseilContainerBtree", formal_param))
        ELSE ScanFormalParams(ix, callstack, func_name, formal_params, k + 1,
                 [st1 EXCEPT
                     !.has_seen_alloc =
                         \/ @
                         \/ StartsWithAnyOf(formal_param, kAllocatorWrappers).has_value
                         \/ StartsWith(formal_param, <<"absl::container_internal::">>),
                     !.is_leaf = FALSE])

\* The loop over the frames, leaf first, from frame f on.
RECURSIVE ScanFrames(_, _, _, _)
ScanFrames(ix, callstack, f, st) ==
    IF f > Len(callstack)
    THEN IF st.fallthrough.lookup_type = <<>> THEN StrategyError("NotFound") ELSE st.fallthrough
    ELSE
    LET func_name == callstack[f].function_name
        demangled_name_no_params == itaniumDemangle(func_name)
    IN  IF func_name = <<>> THEN StrategyError("InvalidArgument")
        ELSE IF StartsWithAnyOf(func_name, kSmartPointersTypes).has_value
        THEN ContainerResolutionStrategy(StartsWithAnyOf(func_name, kSmartPointersTypes).value,
                                         func_name, "kSpecialAllocatingFunction", <<>>)
        ELSE IF func_name \notin DOMAIN ix.formal_and_template_param_map
        THEN ScanFrames(ix, callstack, f + 1, st)
        ELSE IF /\ demangled_name_no_params.has_value
                /\ StartsWithAnyOf(demangled_name_no_params.value, kSpecialAllocatingFunctions).has_value
        THEN ContainerResolutionStrategy(
                 StartsWithAnyOf(demangled_name_no_params.value, kSpecialAllocatingFunctions).value,
                 func_name, "kSpecialAllocatingFunction", <<>>)
        ELSE IF /\ demangled_name_no_params.has_value
                /\ StartsWithAnyOf(demangled_name_no_params.value, kCharContainerTypesLeafFrame).has_value
        THEN ContainerResolutionStrategy(
                 StartsWithAnyOf(demangled_name_no_params.value, kCharContainerTypesLeafFrame).value,
                 func_name, "kCharContainer", <<>>)
        ELSE CHOOSE out \in
                 { IF r.done THEN r.value ELSE ScanFrames(ix, callstack, f + 1, r.st) :
                     r \in { ScanFormalParams(ix, callstack, func_name,
                                 ix.formal_and_template_param_map[func_name], 1, st) } } : TRUE

GetCallStackContainerResolutionStrategy(ix, callstack) ==
    IF callstack = <<>> THEN StrategyError("InvalidArgument")
    ELSE IF CallStackContainsMemprof(callstack, 1).has_value
    THEN ContainerResolutionStrategy(
             <<"__memprof::abseil_container_internal::raw_hash_set">>,
             CallStackContainsMemprof(callstack, 1).value, "kAbseilContainerInserted", <<>>)
    ELSE ScanFrames(ix, callstack, 1,
                    [has_seen_alloc |-> FALSE, is_leaf |-> TRUE, fallthrough |->
                        ContainerResolutionStrategy(<<>>, <<>>, "kDefaultStrategy", <<>>)])

\* The call stacks and indexes of the strategy runs.  Frame f has a
\* function name of its own ending in the token f.
FrameTag(f) == IF f = 1 THEN "1" ELSE IF f = 2 THEN "2" ELSE "3"
FunctionNames(f) ==
    { <<>>,
      <<"_ZSt11make_unique", FrameTag(f)>>,
      <<"_Z", "__memprof_ctrl_alloc", FrameTag(f)>>,
      <<"_Z", "std::get_temporary_buffer", FrameTag(f)>>,
      <<"_Z", "std::basic_string", FrameTag(f)>>,
      <<"_Z", "f", FrameTag(f)>>,
      <<"main", FrameTag(f)>> }
SwissMapTypes ==
    (<<"absl::container_internal::raw_hash_set<", "noparams">> :>
         [formal_parameters |-> <<>>]) @@
    (<<"absl::container_internal::raw_hash_set<", "flat">> :>
         [formal_parameters |-> << <<"absl::container_internal::FlatHashSetPolicy", "T">> >>]) @@
    (<<"absl::container_internal::raw_hash_set<", "node">> :>
         [formal_parameters |-> << <<"absl::container_internal::NodeHashSetPolicy", "T">> >>])
FormalParamTypes ==
    { <<"std::allocator", "T">>, <<"std::vector", "T">>, <<"std::_Vector_base", "T">>,
      <<"llvm::StringMap<", "T">>, <<"llvm::DenseMapBase", "T">>,
      <<"absl::container_internal::raw_hash_set<", "unindexed">>,
      <<"absl::container_internal::btree<", "T">>,
      <<"absl::container_internal::", "CommonFields">>, <<"int">> }
        \cup DOMAIN SwissMapTypes
\* The parameter types the scan reads and passes over on a frame that is
\* not the leaf; a parameter list has any type last and these before it.
PassedOver ==
    { <<"std::allocator", "T">>, <<"std::vector", "T">>,
      <<"absl::container_internal::", "CommonFields">>, <<"int">> }
FormalParamLists(max) ==
    UNION { { p \in [1..n -> FormalParamTypes] : \A k \in 1..(n - 1) : p[k] \in PassedOver } :
              n \in 0..max }

\* A frame and what the index records for its function: nothing, or its
\* formal parameters.  The functions that decide the strategy by their
\* name are recorded without parameters; none is read for them.
Frames(f) ==
    { [function_name |-> n, known |-> FALSE, formal_params |-> <<>>] :
        n \in FunctionNames(f) }
    \cup { [function_name |-> <<"_Z", n, FrameTag(f)>>, known |-> TRUE, formal_params |-> <<>>] :
             n \in {"std::get_temporary_buffer", "std::basic_string"} }
    \cup { [function_name |-> <<"_Z", "f", FrameTag(f)>>, known |-> TRUE, formal_params |-> p] :
             p \in FormalParamLists(MaxParams) }
    \cup { [function_name |-> <<"main", FrameTag(f)>>, known |-> TRUE, formal_params |-> p] :
             p \in FormalParamLists(1) }
RECURSIVE StacksOf(_)
StacksOf(n) ==
    IF n = 0 THEN { <<>> }
    ELSE { Append(cs, fr) : cs \in StacksOf(n - 1), fr \in Frames(n) }
StrategyCallStacks == UNION { StacksOf(n) : n \in 0..MaxFrames }

InitStrategy ==
    /\ pc = "strategy" /\ IdleStore /\ IdleOrder /\ IdleBuild /\ IdleFetch /\ IdleParse
    /\ \E cs \in StrategyCallStacks :
          /\ arg = [callstack |-> [f \in 1..Len(cs) |-> [function_name |-> cs[f].function_name]]]
          /\ index = [formal_and_template_param_map |->
                          [n \in { cs[f].function_name : f \in { g \in 1..Len(cs) : cs[g].known } } |->
                              (CHOOSE fr \in { cs[f] : f \in 1..Len(cs) } : fr.function_name = n).formal_params],
                      types |-> SwissMapTypes]
    /\ tree = NoTree /\ other = NoTree /\ result = "none" /\ hist = <<>>
    /\ prev = NoTree /\ ops = 0

\* One call of GetCallStackContainerResolutionStrategy; result keeps what
\* it returned.
GetStrategy ==
    /\ pc = "strategy"
    /\ result' = GetCallStackContainerResolutionStrategy(index, arg.callstack)
    /\ pc' = "strategy_returned"
    /\ UNCHANGED <<storeVars, orderVars, tree, other, index, hist, prev, ops, arg, buildVars, fetchVars, parseVars>>

NextStrategy == GetStrategy

SpecStrategy == InitStrategy /\ [][NextStrategy]_vars

(***************************************************************************)
(* The synthetic btree node                                                *)
(* (TypeTreeContainerBlueprints::GetBtreeNodeTypeTemplate).                *)
(***************************************************************************)
\* Sizes are in bits; / and % are those of int64_t.
GetBtreeNodeTypeTemplate(slot_type_name, slot_type_size, Alignment, field_type_size, kNodeSlots, pointer_size, request_size, absl_btree_enable_generations) ==
    LET node_static_size == pointer_size + field_type_size * 4 +
                            (IF absl_btree_enable_generations THEN 32 ELSE 0)
        node_static_size_aligned == RoundUp(node_static_size, Alignment)
        padding_size == node_static_size_aligned - node_static_size
        variable_size == request_size - node_static_size_aligned
        children_size == (kNodeSlots + 1) * pointer_size
        internal == CRem(variable_size - children_size, slot_type_size) = 0
        leaf == CRem(variable_size, slot_type_size) = 0
        number_of_slots == IF internal THEN Div(variable_size - children_size, slot_type_size)
                           ELSE Div(variable_size, slot_type_size)
        is_leaf == ~internal
        field(name, type_name, size_bits) ==
            ObjectLayout(Properties(name, type_name, "FIELD", "BUILTIN_TYPE", size_bits, 1), <<>>)
        elements(type_name, type_kind, size_bits, multiplicity) ==
            ObjectLayout(Properties("[_]", type_name, "ARRAY_ELEMENTS", type_kind, size_bits, multiplicity), <<>>)
        array(name, type_name, multiplicity, element) ==
            ObjectLayout(Properties(name, type_name \o <<"[">> \o Decimal(multiplicity) \o <<"]">>,
                                    "FIELD", "ARRAY_TYPE", 0, 1), <<element>>)
    IN  IF ~internal /\ ~leaf
        THEN [ok |-> FALSE, status |-> "InvalidArgument"]
        ELSE [ok |-> TRUE, status |-> "ok", value |->
              ObjectLayout(
                Properties(<<"btree_node", "<">> \o slot_type_name \o <<">">>,
                           <<"btree_node", "<">> \o slot_type_name \o <<">">>,
                           "BASE", "RECORD_TYPE", 0, 1),
                <<field("parent", <<"btree_node", " ", "*">>, pointer_size)>>
                \o (IF absl_btree_enable_generations
                    THEN <<field("generation", <<"uint32_t">>, 32)>> ELSE <<>>)
                \o <<field("position", <<"node_count_type">>, field_type_size),
                     field("start", <<"node_count_type">>, field_type_size),
                     field("finish", <<"node_count_type">>, field_type_size),
                     field("max_count", <<"node_count_type">>, field_type_size)>>
                \o (IF padding_size > 0
                    THEN <<ObjectLayout(Properties("", <<>>, "PADDING", "PADDING_TYPE", padding_size, 1), <<>>)>>
                    ELSE <<>>)
                \o <<array("values", slot_type_name, number_of_slots,
                           elements(slot_type_name, "RECORD_TYPE", slot_type_size, number_of_slots))>>
                \o (IF ~is_leaf
                    THEN <<array("children", <<"btree_node", " ", "*">>, kNodeSlots + 1,
                                 elements(<<"btree_node", " ", "*">>, "BUILTIN_TYPE",
                                          pointer_size, kNodeSlots + 1))>>
                    ELSE <<>>))]

\* The slot types of the btree runs: name and size in bits.
SlotTypes == { [name |-> <<"i">>, size |-> 32], [name |-> Ty.long, size |-> 64],
               [name |-> Ty.A, size |-> 96] }

InitBtree ==
    /\ pc = "btree" /\ IdleStore /\ IdleOrder /\ IdleBuild /\ IdleFetch /\ IdleParse
    /\ arg \in { [slot_type |-> s, Alignment |-> 64, field_type_size |-> 8, kNodeSlots |-> k,
                  pointer_size |-> 64, request_size |-> r, generation_enabled |-> g] :
                    s \in SlotTypes, k \in 1..MaxNodeSlots,
                    r \in { b \in 16..MaxNodeRequest : b % 4 = 0 }, g \in BOOLEAN }
    /\ index = [null |-> TRUE]
    /\ tree = NoTree /\ other = NoTree /\ result = "none" /\ hist = <<>>
    /\ prev = NoTree /\ ops = 0

\* One call of GetBtreeNodeTypeTemplate as the btree branch of
\* ResolveTypeFromResolutionStrategy makes it; result keeps what it returned.
GetBtreeNodeTemplate ==
    /\ pc = "btree"
    /\ result' = GetBtreeNodeTypeTemplate(arg.slot_type.name, arg.slot_type.size, arg.Alignment,
                     arg.field_type_size, arg.kNodeSlots, arg.pointer_size,
                     arg.request_size * 8, arg.generation_enabled)
    /\ pc' = "btree_returned"
    /\ UNCHANGED <<storeVars, orderVars, tree, other, index, hist, prev, ops, arg, buildVars, fetchVars, parseVars>>

NextBtree == GetBtreeNodeTemplate

SpecBtree == InitBtree /\ [][NextBtree]_vars

(***************************************************************************)
(* The lookup of a type by name in the namespace tree of the index         *)
(* (DwarfMetadataFetcher::GetType, SearchType, SplitNamespace).  A type    *)
(* name is a sequence of tokens, "::" among them; a TypeData of the tree   *)
(* has its sub types by short name and its typedefs, each with the         *)
(* qualified name of the type it stands for.                               *)
(***************************************************************************)
RECURSIVE SplitNamespaceFrom(_, _, _, _, _)
SplitNamespaceFrom(type_name, i, piece, stack, names) ==
    IF i > Len(type_name) THEN Append(names, piece)
    ELSE IF type_name[i] = "<"
    THEN SplitNamespaceFrom(type_name, i + 1, Append(piece, "<"), stack + 1, names)
    ELSE IF type_name[i] = ">"
    THEN SplitNamespaceFrom(type_name, i + 1, Append(piece, ">"), stack - 1, names)
    ELSE IF type_name[i] = "::" /\ stack = 0
    THEN SplitNamespaceFrom(type_name, i + 1, <<>>, stack, Append(names, piece))
    ELSE SplitNamespaceFrom(type_name, i + 1, Append(piece, type_name[i]), stack, names)

SplitNamespace(type_name) ==
    IF type_name = <<>> THEN <<>> ELSE SplitNamespaceFrom(type_name, 1, <<>>, 0, <<>>)

\* What a call comes to: it returns a status (returns), or it never
\* returns.  A call of GetType for a name whose GetType is still running
\* (active) makes the same calls again on the same index, without end.
Found(type_data) == [returns |-> TRUE, ok |-> TRUE, status |-> "ok", value |-> type_data]
Failed(status) == [returns |-> TRUE, ok |-> FALSE, status |-> status]
NeverReturns == [returns |-> FALSE, ok |-> FALSE, status |-> "none"]

RECURSIVE SearchType(_, _, _, _, _)
RECURSIVE SearchAnonymous(_, _, _, _, _, _)
RECURSIVE DwarfMetadataFetcher_GetType(_, _, _)

\* The loop of SearchType over the namespaces Anon* of parent_type that are
\* left to visit.
SearchAnonymous(root_space, parent_type, left, names, cur, active) ==
    IF left = {} THEN Failed("NotFound")
    ELSE LET it == CHOOSE n \in left : TRUE
             type_or == SearchType(root_space, parent_type.types[it], names, cur + 1, active)
         IN  IF ~type_or.returns \/ type_or.ok THEN type_or
             ELSE SearchAnonymous(root_space, parent_type, left \ {it}, names, cur, active)

SearchType(root_space, parent_type, names, cur, active) ==
    LET cur_name == names[cur]
    IN  IF cur_name = <<"(anonymous namespace)">>
        THEN SearchAnonymous(root_space, parent_type,
                 { n \in DOMAIN parent_type.types :
                     /\ StartsWith(n, <<"Anon">>)
                     /\ parent_type.types[n].data_type = "NAMESPACE" },
                 names, cur, active)
        ELSE IF cur_name \in DOMAIN parent_type.typedef_type
        THEN DwarfMetadataFetcher_GetType(root_space, parent_type.typedef_type[cur_name], active)
        ELSE IF cur = Len(names)
        THEN IF cur_name \in DOMAIN parent_type.types
             THEN Found(parent_type.types[cur_name])
             ELSE Failed("NotFound")
        ELSE CHOOSE out \in
               { IF ~type_or.returns \/ type_or.ok THEN type_or
                 ELSE IF <<>> \in DOMAIN parent_type.types
                 THEN SearchType(root_space, parent_type.types[<<>>], names, cur + 1, active)
                 ELSE Failed("NotFound") :
                   type_or \in { IF cur_name \in DOMAIN parent_type.types
                                 THEN SearchType(root_space, parent_type.types[cur_name],
                                                 names, cur + 1, active)
                                 ELSE Failed("NotFound") } } : TRUE

\* DwarfMetadataFetcher::GetType
DwarfMetadataFetcher_GetType(root_space, type_name, active) ==
    IF type_name = <<>> THEN Failed("InvalidArgument")
    ELSE IF type_name \in active THEN NeverReturns
    ELSE CHOOSE out \in
           { IF type_or.returns /\ type_or.ok /\ type_or.value.data_type = "NAMESPACE"
             THEN Failed("InvalidArgument")
             ELSE type_or :
               type_or \in { SearchType(root_space, root_space, SplitNamespace(type_name), 1,
                                        active \cup {type_name}) } } : TRUE

\* The namespace trees of the lookups: structs A and B, a namespace ns
\* with a struct A, an anonymous namespace and a namespace without name;
\* a typedef of ns or of the root stands for any of the three structs,
\* the one of its own name among them.
TypeDataOf(data_type, types, typedef_type) ==
    [data_type |-> data_type, types |-> types, typedef_type |-> typedef_type]
NoTypes == [n \in {} |-> [data_type |-> "STRUCTURE"]]
NoTypedefs == [n \in {} |-> <<>>]
Struct == TypeDataOf("STRUCTURE", NoTypes, NoTypedefs)
TypedefTargets == { <<"A">>, <<"B">>, <<"ns", "::", "A">> }
TypedefMaps(names) ==
    UNION { [d -> TypedefTargets] : d \in SUBSET names }
NamespaceNs ==
    { TypeDataOf("NAMESPACE", [n \in d |-> Struct], t) :
        d \in SUBSET { <<"A">> }, t \in TypedefMaps({ <<"A">> }) }
RootSpaces ==
    { TypeDataOf("NAMESPACE",
                 [n \in structs \cup DOMAIN ns \cup extras |->
                     IF n \in DOMAIN ns THEN ns[n]
                     ELSE IF n \in structs THEN Struct
                     ELSE IF n = <<>> THEN TypeDataOf("NAMESPACE", [m \in { <<"B">> } |-> Struct], NoTypedefs)
                     ELSE TypeDataOf("NAMESPACE", [m \in { <<"A">> } |-> Struct], NoTypedefs)],
                 t) :
        structs \in SUBSET { <<"A">>, <<"B">> },
        ns \in { NoTypes } \cup { [n \in { <<"ns">> } |-> s] : s \in NamespaceNs },
        extras \in { {}, { <<>>, <<"Anon", "1">> } },
        t \in TypedefMaps({ <<"A">>, <<"B">> }) }
SearchedNames ==
    { <<"A">>, <<"B">>, <<"ns", "::", "A">>, <<"ns">>, <<"ns", "::", "B">>,
      <<"(anonymous namespace)", "::", "A">>, <<>> }

InitSearch ==
    /\ pc = "gettype" /\ IdleStore /\ IdleOrder /\ IdleBuild /\ IdleFetch /\ IdleParse
    /\ index \in { [root_space |-> r] : r \in RootSpaces }
    /\ arg \in { [type_name |-> n] : n \in SearchedNames }
    /\ tree = NoTree /\ other = NoTree /\ result = [ok |-> FALSE, status |-> "none"] /\ hist = <<>>
    /\ prev = NoTree /\ ops = 0

\* A call of GetType that returns; result keeps the status.
GetTypeReturns ==
    /\ pc = "gettype"
    /\ \E type_or \in { DwarfMetadataFetcher_GetType(index.root_space, arg.type_name, {}) } :
          /\ type_or.returns
          /\ result' = [ok |-> type_or.ok, status |-> type_or.status]
    /\ pc' = "gettype_returned"
    /\ UNCHANGED <<storeVars, orderVars, tree, other, index, hist, prev, ops, arg, buildVars, fetchVars, parseVars>>

\* A call of GetType that comes back to a call of itself: it stays in the
\* recursion.
GetTypeRecurses ==
    /\ pc = "gettype"
    /\ ~DwarfMetadataFetcher_GetType(index.root_space, arg.type_name, {}).returns
    /\ pc' = "gettype_recursing"
    /\ UNCHANGED <<storeVars, orderVars, tree, other, result, index, hist, prev, ops, arg, buildVars, fetchVars, parseVars>>

NextSearch == GetTypeReturns \/ GetTypeRecurses

\* A call that was made runs.
SpecSearch == InitSearch /\ [][NextSearch]_vars /\ WF_vars(NextSearch)

(***************************************************************************)
(* The merge of the packs of several binaries into one index               *)
(* (MetadataPack::Insert in the loop of FetchWithPath), on namespace       *)
(* trees as SearchType reads them.                                         *)
(***************************************************************************)
EmptyPack == [root_space |-> TypeDataOf("NAMESPACE", NoTypes, NoTypedefs), pointer_size |-> 0]

MetadataPack_Empty(this) ==
    DOMAIN this.root_space.types = {} /\ DOMAIN this.root_space.typedef_type = {}

MetadataPack_Insert(this, other_pack) ==
    IF MetadataPack_Empty(other_pack) THEN [status |-> "Ok", pack |-> this]
    ELSE IF this.pointer_size # 0 /\ this.pointer_size # other_pack.pointer_size
    THEN [status |-> "Internal", pack |-> this]
    ELSE [status |-> "Ok",
          pack |-> [pointer_size |-> other_pack.pointer_size,
                    root_space |-> [this.root_space EXCEPT
                        !.types = [n \in DOMAIN this.root_space.types
                                           \cup DOMAIN other_pack.root_space.types |->
                                      IF n \in DOMAIN this.root_space.types
                                      THEN this.root_space.types[n]
                                      ELSE other_pack.root_space.types[n]],
                        !.typedef_type = [n \in DOMAIN this.root_space.typedef_type
                                                  \cup DOMAIN other_pack.root_space.typedef_type |->
                                             IF n \in DOMAIN this.root_space.typedef_type
                                             THEN this.root_space.typedef_type[n]
                                             ELSE other_pack.root_space.typedef_type[n]]]]]

\* The packs of the binaries: a struct A or none, a namespace std with
\* some of the structs V and S or none, pointers of 4 or 8 bytes.
StdTypes == { <<"V">>, <<"S">> }
BinaryPacks ==
    { [root_space |->
          TypeDataOf("NAMESPACE",
                     [n \in top \cup (IF std = {} THEN {} ELSE { <<"std">> }) |->
                         IF n = <<"std">>
                         THEN TypeDataOf("NAMESPACE", [m \in std |-> Struct], NoTypedefs)
                         ELSE Struct],
                     NoTypedefs),
       pointer_size |-> p] :
        top \in SUBSET { <<"A">> }, std \in SUBSET StdTypes, p \in {4, 8} }
RECURSIVE PackLists(_)
PackLists(n) ==
    IF n = 0 THEN { <<>> }
    ELSE { Append(l, b) : l \in PackLists(n - 1), b \in BinaryPacks }

InitMerge ==
    /\ pc = "merge" /\ IdleStore /\ IdleOrder /\ IdleBuild /\ IdleFetch /\ IdleParse
    /\ arg \in { [binaries |-> l] : l \in PackLists(MaxBinaries) }
    /\ index = EmptyPack
    /\ tree = NoTree /\ other = NoTree /\ result = "Ok" /\ hist = <<>>
    /\ prev = NoTree /\ ops = 0

\* One iteration of the loop of FetchWithPath: the pack read from the next
\* binary is inserted into pack_; an error ends the loop.
InsertNextPack ==
    /\ pc = "merge" /\ ops < Len(arg.binaries) /\ result = "Ok"
    /\ \E r \in { MetadataPack_Insert(index, arg.binaries[ops + 1]) } :
          /\ index' = r.pack
          /\ result' = r.status
    /\ ops' = ops + 1
    /\ UNCHANGED <<pc, storeVars, orderVars, tree, other, hist, prev, arg, buildVars, fetchVars, parseVars>>

NextMerge == InsertNextPack

SpecMerge == InitMerge /\ [][NextMerge]_vars

(***************************************************************************)
(* DwarfParserState::getNextDwarfUnit called by several threads.  A unit   *)
(* is <<section, i>>; the parser state has the number of units of each     *)
(* section, curr_state_ and curr_it_ (the units of the current section     *)
(* already passed).  A thread calls until it is given nullptr.             *)
(***************************************************************************)
Sections == <<"kTypesSectionUnits", "kInfoSectionUnits", "kDwpTypesSectionUnits",
              "kDwpInfoSectionUnits">>
nullptr == <<"nullptr", 0>>

\* The body of getNextDwarfUnit between m_.Lock() and the return, with one
\* change: curr_it_ is left where it is when a unit is handed out.
getNextDwarfUnit_NoAdvance(state) ==
    LET at_end == state.curr_it_ = state.units[state.curr_state_]
        enter(section) == [state EXCEPT !.curr_it_ = 0, !.curr_state_ = section]
    IN  IF state.curr_state_ = "kTypesSectionUnits" /\ at_end
        THEN [state |-> enter("kInfoSectionUnits"), unlocked |-> TRUE, again |-> TRUE, next |-> nullptr]
        ELSE IF state.curr_state_ = "kInfoSectionUnits" /\ at_end
        THEN IF state.has_dwp
             THEN [state |-> enter("kDwpTypesSectionUnits"), unlocked |-> TRUE, again |-> TRUE, next |-> nullptr]
             ELSE [state |-> state, unlocked |-> TRUE, again |-> FALSE, next |-> nullptr]
        ELSE IF state.curr_state_ = "kDwpTypesSectionUnits" /\ at_end
        THEN [state |-> enter("kDwpInfoSectionUnits"), unlocked |-> TRUE, again |-> TRUE, next |-> nullptr]
        ELSE IF state.curr_state_ = "kDwpInfoSectionUnits" /\ at_end
        THEN [state |-> state, unlocked |-> TRUE, again |-> FALSE, next |-> nullptr]
        ELSE [state |-> state, unlocked |-> TRUE, again |-> FALSE,
              next |-> <<state.curr_state_, state.curr_it_ + 1>>]

\* The body of getNextDwarfUnit between m_.Lock() and the return: the
\* parser state afterwards, whether m_.Unlock() was called, whether the
\* function calls itself again, and the unit returned otherwise.
getNextDwarfUnit(state) ==
    LET at_end == state.curr_it_ = state.units[state.curr_state_]
        enter(section) == [state EXCEPT !.curr_it_ = 0, !.curr_state_ = section]
    IN  IF state.curr_state_ = "kTypesSectionUnits" /\ at_end
        THEN [state |-> enter("kInfoSectionUnits"), unlocked |-> TRUE, again |-> TRUE, next |-> nullptr]
        ELSE IF state.curr_state_ = "kInfoSectionUnits" /\ at_end
        THEN IF state.has_dwp
             THEN [state |-> enter("kDwpTypesSectionUnits"), unlocked |-> TRUE, again |-> TRUE, next |-> nullptr]
             ELSE [state |-> state, unlocked |-> TRUE, again |-> FALSE, next |-> nullptr]
        ELSE IF state.curr_state_ = "kDwpTypesSectionUnits" /\ at_end
        THEN [state |-> enter("kDwpInfoSectionUnits"), unlocked |-> TRUE, again |-> TRUE, next |-> nullptr]
        ELSE IF state.curr_state_ = "kDwpInfoSectionUnits" /\ at_end
        THEN [state |-> state, unlocked |-> TRUE, again |-> FALSE, next |-> nullptr]
        ELSE [state |-> [state EXCEPT !.curr_it_ = @ + 1], unlocked |-> TRUE, again |-> FALSE,
              next |-> <<state.curr_state_, state.curr_it_ + 1>>]

InitUnits ==
    /\ pc = "units" /\ IdleStore /\ IdleOrder /\ IdleBuild /\ IdleFetch
    /\ arg \in { [units |-> [s \in { Sections[k] : k \in 1..4 } |->
                                IF s = "kTypesSectionUnits" THEN t
                                ELSE IF s = "kInfoSectionUnits" THEN i
                                ELSE IF s = "kDwpTypesSectionUnits" THEN dt ELSE di],
                  has_dwp |-> dwp, curr_state_ |-> "kTypesSectionUnits", curr_it_ |-> 0] :
                    t \in 0..MaxUnits, i \in 0..MaxUnits, dt \in 0..MaxUnits, di \in 0..MaxUnits,
                    dwp \in BOOLEAN }
    /\ arg.has_dwp \/ (arg.units["kDwpTypesSectionUnits"] = 0 /\ arg.units["kDwpInfoSectionUnits"] = 0)
    /\ wk = [w \in Workers |-> [pc |-> "call", got |-> <<>>]]
    /\ mutex = "none"
    /\ dies = <<>> /\ root_types = <<>>
    /\ index = [null |-> TRUE]
    /\ tree = NoTree /\ other = NoTree /\ result = "none" /\ hist = <<>>
    /\ prev = NoTree /\ ops = 0

\* m_.Lock() of a call of thread w (the first of the call or the one of a
\* call of the function by itself).
LockUnits(w) ==
    /\ pc = "units" /\ wk[w].pc = "call" /\ mutex = "none"
    /\ mutex' = w
    /\ wk' = [wk EXCEPT ![w].pc = "locked"]
    /\ UNCHANGED <<pc, storeVars, orderVars, treeVars, buildVars, fetchVars, dies, root_types>>

\* The rest of the call of thread w, up to its return or to the call of the
\* function by itself; hist has the units in the order they are handed out.
TakeUnit(w) ==
    /\ pc = "units" /\ wk[w].pc = "locked" /\ mutex = w
    /\ \E r \in { getNextDwarfUnit(arg) } :
          /\ arg' = r.state
          /\ mutex' = IF r.unlocked THEN "none" ELSE mutex
          /\ wk' = [wk EXCEPT ![w] =
                       IF r.again THEN [@ EXCEPT !.pc = "call"]
                       ELSE [pc |-> IF r.next = nullptr THEN "done" ELSE "call",
                             got |-> Append(@.got, r.next)]]
          /\ hist' = IF r.again THEN hist ELSE Append(hist, r.next)
    /\ UNCHANGED <<pc, storeVars, orderVars, tree, other, result, index, prev, ops, buildVars, fetchVars, dies, root_types>>

NextUnits == \E w \in Workers : LockUnits(w) \/ TakeUnit(w)

SpecUnits == InitUnits /\ [][NextUnits]_vars





(***************************************************************************)
(* What the claims speak about: the structure of a tree (everything but    *)
(* the counters) and its counters, node by node.                           *)
(***************************************************************************)
RECURSIVE Structure(_)
Structure(n) ==
    [n EXCEPT !.access_counters = NoCounters,
              !.children = [i \in 1..Len(n.children) |-> Structure(n.children[i])]]

RECURSIVE CountersOf(_)
CountersOf(n) ==
    [c |-> n.access_counters,
     kids |-> [i \in 1..Len(n.children) |-> CountersOf(n.children[i])]]

\* The node-by-node sum of two counter trees of the same shape.
RECURSIVE CountersSum(_, _)
CountersSum(a, b) ==
    [c |-> [total    |-> a.c.total + b.c.total,
            access   |-> a.c.access + b.c.access,
            llc_miss |-> a.c.llc_miss + b.c.llc_miss],
     kids |-> [i \in 1..Len(a.kids) |-> CountersSum(a.kids[i], b.kids[i])]]

Merged == lastCall.op # "none" /\ lastCall.path = "merged"

\* C1 as stated: when Insert merges into a present call stack, the tree mapped
\* to the call stack keeps the node structure of the previously stored tree
\* and its counters are the stored counters plus those of the inserted tree.
C1_StoredStructureKept ==
    Merged =>
        /\ Structure(store[lastCall.callstack].root) = Structure(lastCall.prev.root)
        /\ CountersOf(store[lastCall.callstack].root)
               = CountersSum(CountersOf(lastCall.prev.root), CountersOf(lastCall.type_tree.root))

\* C1 as amended: when Insert merges into a present call stack, the tree mapped
\* to the call stack has the node structure of the inserted tree (which
\* replaces the stored one) and its counters are the stored counters plus
\* those of the inserted tree.
C1_InsertedStructureKept ==
    Merged =>
        /\ Structure(store[lastCall.callstack].root) = Structure(lastCall.type_tree.root)
        /\ CountersOf(store[lastCall.callstack].root)
               = CountersSum(CountersOf(lastCall.prev.root), CountersOf(lastCall.type_tree.root))

\* A merge of two trees of different structure whose counters are not all zero.
C1_Witness ==
    /\ Merged
    /\ Structure(lastCall.prev.root) # Structure(lastCall.type_tree.root)
    /\ GetTotalAccessCount(lastCall.prev.root) > 0
    /\ GetTotalAccessCount(lastCall.type_tree.root) > 0

\* C2: the root type name of the tree mapped to a call stack is the root type
\* name of the first tree stored under it, and an Insert or InsertAndGet of a
\* tree with another root type name under a present call stack is an error
\* that leaves the mapped tree as it was.
C2_RootTypeNameNeverChanges ==
    /\ \A cs \in CallStacks :
          store[cs] # NoTree => Name(store[cs]) = firstName[cs]
    /\ ( /\ lastCall.op # "none"
         /\ lastCall.type_tree # NoTree
         /\ lastCall.prev # NoTree
         /\ Name(lastCall.prev) # Name(lastCall.type_tree) )
       => /\ lastCall.status # "Ok"
          /\ store[lastCall.callstack] = lastCall.prev

\* An insert of a tree named B under a call stack that holds a tree named A
\* with the same root node.
C2_Witness ==
    /\ lastCall.op # "none"
    /\ lastCall.path = "different_root"
    /\ lastCall.prev.root.type_name = lastCall.type_tree.root.type_name

\* C4: inserting the tree that a call stack already maps to, once more, leaves
\* every node with twice the counters of the single insertion.
C4_MergeIdempotence ==
    (Merged /\ lastCall.prev = lastCall.type_tree) =>
        CountersOf(store[lastCall.callstack].root)
            = CountersSum(CountersOf(lastCall.type_tree.root), CountersOf(lastCall.type_tree.root))

\* The same tree with non-zero counters inserted twice under one call stack.
C4_Witness ==
    /\ Merged
    /\ lastCall.prev = lastCall.type_tree
    /\ GetTotalAccessCount(lastCall.type_tree.root) > 0
    /\ NumChildren(lastCall.type_tree.root) > 0

\* The counters of every tree of a store, by call stack.
CountersOfStore(st) ==
    [cs \in CallStacks |-> IF st[cs] = NoTree THEN NoTree ELSE CountersOf(st[cs].root)]

AllFed == pc = "order" /\ fed = Len(feedA)

\* Two trees that merge with each other, whichever of them is the stored one.
MergeBothWays(t, u) ==
    /\ Name(t) = Name(u)
    /\ TypeTree_MergeCounts(t, u).ok
    /\ TypeTree_MergeCounts(u, t).ok

\* Any two trees fed under one call stack merge with each other.
FeedMergeable ==
    \A i, j \in 1..Len(feedA) :
        feedA[i][1] = feedA[j][1] => MergeBothWays(feedA[i][2], feedA[j][2])

RECURSIVE NodesOf(_)
\* Every node of the tree under n, as <<node, parent>>; the root's parent is NoTree.
NodesOf(n) ==
    UNION { { <<n.children[i], n>> } \cup NodesOf(n.children[i]) : i \in 1..Len(n.children) }

AllNodes(root) == { <<root, NoTree>> } \cup NodesOf(root)

\* 1: positive size.
PositiveSize(n) == n.size_bits > 0

\* 2: the children of a non-union parent tile it by full size from offset 0.
Tiled(n) ==
    (~n.is_union /\ Len(n.children) > 0) =>
        /\ n.children[1].offset_bits = 0
        /\ \A i \in 2..Len(n.children) :
               n.children[i].offset_bits
                   = n.children[i - 1].offset_bits + GetFullSizeBits(n.children[i - 1])
        /\ SumSeq([i \in 1..Len(n.children) |-> GetFullSizeBits(n.children[i])]) = n.size_bits

\* 3: global offset = parent's global offset + offset.
GlobalOffsetConsistent(n, parent) ==
    parent # NoTree => n.global_offset = parent.global_offset + n.offset_bits

\* 4: the parent's total is not greater than the sum of its children's.
ParentNotGreater(n) ==
    Len(n.children) > 0 =>
        n.access_counters.total
            <= SumSeq([i \in 1..Len(n.children) |-> n.children[i].access_counters.total])

\* 5: the children of a union sit at offset 0; a single child has the union's
\* total, and children of equal full size have equal totals.
UnionChildrenAgree(n) ==
    n.is_union =>
        /\ \A i \in 1..Len(n.children) : n.children[i].offset_bits = 0
        /\ Len(n.children) = 1 =>
               n.children[1].access_counters.total = n.access_counters.total
        /\ \A i, j \in 1..Len(n.children) :
               GetFullSizeBits(n.children[i]) = GetFullSizeBits(n.children[j])
                   => n.children[i].access_counters.total = n.children[j].access_counters.total

\* 6: non-padding nodes have a type name.
TypeNamed(n) == n.type_kind # "PADDING_TYPE" => n.type_name # <<>>

NodeValid(n, parent) ==
    /\ PositiveSize(n) /\ Tiled(n) /\ GlobalOffsetConsistent(n, parent)
    /\ ParentNotGreater(n) /\ UnionChildrenAgree(n) /\ TypeNamed(n)

TreeValid(t) == \A np \in AllNodes(t.root) : NodeValid(np[1], np[2])

\* C7: Verify returns false for every tree in which some node, at any depth,
\* below a member of a union included, violates one of the invariants 1-6.
C7_VerifyRejectsEveryViolation ==
    (pc = "verified" /\ ~TreeValid(tree)) => result = FALSE

\* C8: Verify returns true for every tree in which all nodes satisfy the
\* invariants 1-6, wherever unions and nodes of multiplicity > 1 are placed
\* among their siblings and whatever counters the siblings carry.
C8_VerifyAcceptsEveryValidTree ==
    (pc = "verified" /\ TreeValid(tree)) => result = TRUE

Resolved == pc = "resolved" /\ tree # NoTree

\* C5: in every tree the resolver builds, the children of every non-union
\* parent start at offset 0, follow each other by full size without overlap
\* or uncovered gap, and their full sizes sum to the parent's size.
C5_ResolverTreesAreTiled ==
    Resolved => \A np \in AllNodes(tree.root) : Tiled(np[1])

\* C6: in every tree the resolver builds, every node has size_bits > 0:
\* unresolved nodes, array nodes and their elements, and nodes of types
\* recorded without a byte size included.
C6_ResolverTreesHavePositiveSizes ==
    Resolved => \A np \in AllNodes(tree.root) : PositiveSize(np[1])

AllZero(t) == \A np \in AllNodes(t.root) : np[1].access_counters = NoCounters

\* The histogram has one 8-byte bucket for each 8 bytes of the root.
Aligned(t, histogram) ==
    Len(histogram) * kDefaultAccessGranularity = GetFullSizeBytes(t.root)

\* C9: after RecordAccessHistogram applies a histogram H to a tree whose
\* counters are all zero and whose root full size is |H| * 8 bytes, the
\* root's total is the sum of H.
C9_SumLawAligned ==
    (pc = "recorded" /\ AllZero(prev) /\ Aligned(prev, hist))
        => GetTotalAccessCount(tree.root) = SumSeq(hist)

\* An aligned histogram with counts in more than one bucket has been recorded
\* on a tree with fields.
C9_Witness ==
    /\ pc = "recorded" /\ AllZero(prev) /\ Aligned(prev, hist)
    /\ Len(hist) >= 2 /\ hist[1] > 0 /\ hist[2] > 0
    /\ NumChildren(tree.root) >= 2
    /\ GetTotalAccessCount(tree.root) = SumSeq(hist)

\* C10: after any sequence of RecordAccessHistogram and MergeCounts calls on
\* a resolver-built tree, no node with children has a total greater than the
\* sum of its children's totals.
C10_ParentNeverGreater ==
    pc = "attribute" => \A np \in AllNodes(tree.root) : ParentNotGreater(np[1])

\* The offset the specification attributes a bucket at: o mod the root's full
\* size once o reaches it.
WrapOffset(o, full) == IF o >= full THEN o % full ELSE o

RECURSIVE RecordBucketsWrapped(_, _, _, _)
RecordBucketsWrapped(root, histogram, i, full) ==
    IF i > Len(histogram) THEN root
    ELSE RecordBucketsWrapped(
             Node_RecordAccess(root,
                               WrapOffset((i - 1) * kDefaultAccessGranularity, full),
                               histogram[i], <<0>>, "kAccess").node,
             histogram, i + 1, full)

\* C11: a count recorded at a byte offset o >= root.full_size is attributed at
\* o mod root.full_size, by a single TypeTree::RecordAccess call and for every
\* bucket that RecordAccessHistogram applies.
C11_WrappedOffsetsAttributed ==
    /\ (pc = "accessed" /\ GetFullSizeBytes(prev.root) > 0) =>
           tree.root = Node_RecordAccess(prev.root,
                           WrapOffset(arg.offset_bytes, GetFullSizeBytes(prev.root)),
                           arg.count, <<0>>, "kAccess").node
    /\ (pc = "recorded" /\ GetFullSizeBytes(prev.root) > 0) =>
           tree.root = RecordBucketsWrapped(prev.root, HistogramToRecord(prev, hist), 1,
                                            GetFullSizeBytes(prev.root))

\* The histogram is at least twice as large as the root.
Bulk(t, histogram) ==
    /\ GetFullSizeBytes(t.root) > 0
    /\ Len(histogram) * kDefaultAccessGranularity >= 2 * GetFullSizeBytes(t.root)

\* ceil(root.size / 8)
CollapsedSize(t) ==
    (GetSizeBytes(t.root) + kDefaultAccessGranularity - 1) \div kDefaultAccessGranularity

\* The sum of the buckets b, b + stride, b + 2 * stride, ... among the first
\* upto buckets of the histogram (buckets are numbered from 1 here).
SumStride(histogram, b, stride, upto) ==
    SumSeq([n \in 1..Len(histogram) |->
                IF n <= upto /\ n >= b /\ (n - b) % stride = 0
                THEN histogram[n] ELSE 0])

\* C12 as stated: a histogram of N buckets with N * 8 >= 2 * root.full_size is
\* recorded as M = ceil(root.size / 8) buckets, collapsed bucket i being the
\* sum of the original buckets i, i + k, i + 2k, ... with k = N / M, and every
\* original bucket is counted once when N is a multiple of M.
C12_CollapseStrideK ==
    (pc = "recorded" /\ Bulk(prev, hist)) =>
        LET M == CollapsedSize(prev)
            k == Len(hist) \div M
            collapsed == [i \in 1..M |-> SumStride(hist, i, k, Len(hist))]
        IN  /\ tree.root = RecordBuckets(prev.root, collapsed, 1, "kAccess")
            /\ Len(hist) % M = 0 => SumSeq(collapsed) = SumSeq(hist)

\* C12, amended: the collapsed bucket i is the sum of the original buckets
\* i, i + M, i + 2M, ..., i + (k - 1) * M with k = N div M; every original
\* bucket is counted once when N is a multiple of M, and the last N mod M
\* buckets are left out otherwise.
C12_CollapseStrideM ==
    (pc = "recorded" /\ Bulk(prev, hist)) =>
        LET M == CollapsedSize(prev)
            k == Len(hist) \div M
            collapsed == [i \in 1..M |-> SumStride(hist, i, M, k * M)]
        IN  /\ tree.root = RecordBuckets(prev.root, collapsed, 1, "kAccess")
            /\ Len(hist) % M = 0 => SumSeq(collapsed) = SumSeq(hist)
            /\ result = (IF Len(hist) % M = 0 THEN "Ok" ELSE "FailedPrecondition")

\* The histogram of three objects of a 16-byte type with fields has been
\* collapsed into two buckets and recorded.
C12_Witness ==
    /\ pc = "recorded" /\ Bulk(prev, hist) /\ AllZero(prev)
    /\ CollapsedSize(prev) = 2 /\ Len(hist) = 6
    /\ NumChildren(tree.root) >= 2
    /\ GetTotalAccessCount(tree.root) = SumSeq(hist)

\* BuildHistogram goes on after the site of the last iteration.
Continues ==
    \/ pc = "build"
    \/ pc = "returned" /\ result = "Ok" /\ site = Len(profile)

\* C13 as stated: a site whose type resolution fails changes no field of the
\* Statistics and inserts nothing into the store, and the loop continues.
C13_UnresolvedSiteCountsNothing ==
    step.path = "unresolved" =>
        /\ stats = step.stats
        /\ store = step.store
        /\ Continues

\* C13, amended: a site whose type resolution fails increments
\* total_allocations_count and no other field of the Statistics, inserts
\* nothing into the store, and the loop continues.
C13_UnresolvedSiteCountsAllocationOnly ==
    step.path = "unresolved" =>
        /\ stats = [step.stats EXCEPT !.total_allocations_count = @ + 1]
        /\ store = step.store
        /\ Continues

\* The second of three sites failed to resolve, after a tree had been stored.
C13_Witness ==
    /\ step.path = "unresolved" /\ pc = "build"
    /\ site = 2 /\ Len(profile) = 3
    /\ step.store # EmptyStore
    /\ stats.total_found_type = 1 /\ stats.total_allocations_count = 2

CannotBeOpened(bin) == ~(bin.path \in DOMAIN Files /\ Files[bin.path].object)

\* C15: a Fetch, FetchWithPath or FetchDWPWithPath with a listed binary that
\* cannot be opened or retrieved returns a status that is not OK.
C15_UnopenableBinaryFailsFetch ==
    (fetched.op # "none" /\ \E i \in 1..Len(fetched.bins) : CannotBeOpened(fetched.bins[i]))
        => fetched.status # "Ok"

\* C16: GetCacheableType never returns an entry cached before the most recent
\* Fetch: the pointer it returns is into the index of the current epoch, and
\* what is read through it is the current index's entry.
C16_CacheInvalidatedByFetch ==
    (pc = "fetch" /\ arg # NoArg) =>
        (result.ok => /\ result.value.epoch = epoch
                      /\ result.data = index.types[arg.type_name])

\* A worker is about to read or write root_space->types without holding the mutex.
OutsideMutex(w) == wk[w].pc \in {"contains", "insert", "parse"}

FieldTypeSize(ix, type_name) ==
    IF IsIndirection(type_name) THEN GetPointerSize(ix)
    ELSE LET element == GetType(ix, GetArrayChildTypeName(type_name))
         IN  IF element.ok /\ element.value.size > 0
             THEN GetArrayMultiplicity(type_name) * element.value.size
             ELSE -1

\* C18: a field returned by GetField(type, offset) covers the offset
\* (f.offset <= offset < f.offset + size of f's type), and an offset outside
\* [0, size of the type) is an error.
C18_GetFieldCoversOffset ==
    pc = "looked_up" =>
        LET type_data == GetType(index, arg.type_name)
            f == arg.field
        IN  /\ (f.ok /\ FieldTypeSize(index, f.value.type_name) > 0) =>
                   /\ f.value.offset <= arg.offset
                   /\ arg.offset < f.value.offset + FieldTypeSize(index, f.value.type_name)
            /\ (type_data.ok /\ (arg.offset < 0 \/ arg.offset >= type_data.value.size)) =>
                   ~f.ok

\* The call of the example: 128 bytes requested for slots of 16 bits, the
\* outer layout applied.
SwissExample ==
    /\ pc = "swiss_resolved" /\ ~arg.is_local
    /\ arg.request_size = 128 /\ GetFullSizeBits(arg.slot.root) = 16

\* The capacity the synthesized tree was built for: the multiplicity of the
\* elements of its last child, slots.
SynthesizedCapacity == other.root.children[NumChildren(other.root)].children[1].multiplicity

\* Whenever the outer layout is applied and resolution succeeds, the
\* returned tree is the synthesized one and its size is the requested size.
SwissSizeMatchesOnSuccess ==
    (pc = "swiss_resolved" /\ ~arg.is_local /\ result = "ok") =>
        /\ tree = other
        /\ GetFullSizeBytes(tree.root) = arg.request_size

\* C19 (as stated): for R = 128 bytes, A = 8, W = 16, s_bits = 16 and no
\* hashtablez handle the synthesized layout has capacity 35 and totals 128
\* bytes, so resolution does not report Internal; and whenever resolution
\* succeeds the synthesized layout's size equals the requested size.
C19_SwissMapExampleTotals128 ==
    /\ SwissExample =>
           /\ SynthesizedCapacity = 35
           /\ GetFullSizeBytes(other.root) = 128
           /\ result # "Internal"
    /\ SwissSizeMatchesOnSuccess

\* C19 (amended): for the same call the synthesized layout has capacity 35
\* and totals 134 bytes (64 bytes of metadata and padding, 70 bytes of
\* slots), so resolution reports Internal; and whenever resolution succeeds
\* the synthesized layout's size equals the requested size.
C19_SwissMapExampleTotals134 ==
    /\ SwissExample =>
           /\ SynthesizedCapacity = 35
           /\ GetFullSizeBytes(other.root) = 134
           /\ result = "Internal"
    /\ SwissSizeMatchesOnSuccess

C19_Witness == SwissExample /\ NumChildren(other.root) = 6

SiteWasVerified == step.path \in {"inserted", "insert_error"}

\* C21: total_verified counts the resolved sites whose tree passed Verify: an
\* iteration that verifies a tree adds one when Verify returned true and
\* nothing when it returned false, and a failed Verify does not fail the run.
C21_VerifiedCountsPassingSites ==
    SiteWasVerified =>
        /\ stats.total_verified = step.stats.total_verified + (IF step.verified THEN 1 ELSE 0)
        /\ (~step.verified /\ step.path = "inserted") => Continues

\* The fields of A whose type has an entry in the index, and the order in
\* which the hash set of field indices yields the fields of offset 0.
Resolvable(ix) ==
    { i \in 1..Len(ix.types[Ty.A].fields) : GetType(ix, ix.types[Ty.A].fields[i].type_name).ok }
Visited(ix) == InOrder(OffsetIdx(ix.types[Ty.A])[0], ix.hash_descending)
Position(ix, i) == CHOOSE k \in 1..Len(Visited(ix)) : Visited(ix)[k] = i - 1

\* Field i of A wins over field j under the cascade: larger type size, then
\* more sub-fields, then not inherited, then a name that does not begin
\* with "_".
Wins(ix, i, j) ==
    LET a == ix.types[Ty.A].fields[i]
        b == ix.types[Ty.A].fields[j]
        ta == GetType(ix, a.type_name).value
        tb == GetType(ix, b.type_name).value
    IN  \/ ta.size > tb.size
        \/ ta.size = tb.size /\ Len(ta.fields) > Len(tb.fields)
        \/ /\ ta.size = tb.size /\ Len(ta.fields) = Len(tb.fields)
           /\ \/ ~a.inherited /\ b.inherited
              \/ /\ a.inherited = b.inherited
                 /\ ~StartsWithUnderscore(a.name) /\ StartsWithUnderscore(b.name)

\* C22: the field selected at a conflicting offset is the maximum of the
\* resolvable fields under the cascade (larger type size, more sub-fields,
\* not inherited, no leading "_"), the first seen among equals.
C22_SelectedFieldIsCascadeMaximum ==
    (pc = "conflict_resolved" /\ Resolvable(index) # {}) =>
        /\ result = "ok" /\ Len(arg.resolved_fields) = 1
        /\ \E s \in Resolvable(index) :
              /\ arg.resolved_fields[1] = index.types[Ty.A].fields[s]
              /\ \A c \in Resolvable(index) \ {s} :
                    /\ ~Wins(index, c, s)
                    /\ Wins(index, s, c) \/ Position(index, s) < Position(index, c)

\* C23: the field selected at a conflicting offset is the same whichever
\* order the hash set yields the candidate fields in.
C23_SelectionIndependentOfOrder ==
    pc = "conflict_resolved" =>
        arg.resolved_fields =
            ResolveFieldConflicts([index EXCEPT !.hash_descending = ~@], index.types[Ty.A]).value

\* The enumerated cases, in their order, and the case a frame of the call
\* stack triggers: by the name of its function, or by a formal parameter
\* the index records for it.
StrategyCases ==
    <<"special-allocating", "char-container", "smart-pointer", "STL-leaf", "STL-interior",
      "ADT", "SwissMap", "btree", "memprof-inserted", "default">>
FrameParams(f) ==
    IF arg.callstack[f].function_name \in DOMAIN index.formal_and_template_param_map
    THEN index.formal_and_template_param_map[arg.callstack[f].function_name]
    ELSE <<>>
SomeParam(f, keywords) ==
    \E k \in 1..Len(FrameParams(f)) : StartsWithAnyOf(FrameParams(f)[k], keywords).has_value
Triggers(f, c) ==
    LET func_name == arg.callstack[f].function_name
        demangled == itaniumDemangle(func_name)
    IN  CASE c = 1 -> demangled.has_value /\
                      StartsWithAnyOf(demangled.value, kSpecialAllocatingFunctions).has_value
          [] c = 2 -> demangled.has_value /\
                      StartsWithAnyOf(demangled.value, kCharContainerTypesLeafFrame).has_value
          [] c = 3 -> StartsWithAnyOf(func_name, kSmartPointersTypes).has_value
          [] c = 4 -> f = 1 /\ SomeParam(f, kSTLContainerLeafCheckTypes)
          [] c = 5 -> SomeParam(f, kSTLContainerTypes)
          [] c = 6 -> SomeParam(f, kADTContainerTypes \cup kADTDenseContainerTypes)
          [] c = 7 -> SomeParam(f, kABSLContainerSwissMapTypes)
          [] c = 8 -> SomeParam(f, kABSLContainerBtreeTypes)
          [] c = 9 -> \E memprof \in kMemprofInsertedFunctions : StrContains(func_name, memprof)
          [] c = 10 -> SomeParam(f, kAllocatorWrappers)
Least(S) == CHOOSE x \in S : \A y \in S : x <= y
\* The case the scan order selects: 0 when no case matches.
SelectedCase ==
    LET frames == 1..Len(arg.callstack)
        specific == { f \in frames : \E c \in 1..8 : Triggers(f, c) }
    IN  IF specific # {} THEN Least({ c \in 1..8 : Triggers(Least(specific), c) })
        ELSE IF \E f \in frames : Triggers(f, 9) THEN 9
        ELSE IF \E f \in frames : Triggers(f, 10) THEN 10
        ELSE 0
\* The case of the strategy that was returned: 0 for NotFound.
ReturnedCase ==
    IF ~result.ok THEN 0
    ELSE CASE result.container_type = "kSpecialAllocatingFunction" ->
                  IF result.container_name \in kSmartPointersTypes THEN 3 ELSE 1
           [] result.container_type = "kCharContainer" -> 2
           [] result.container_type = "kLeafContainerGWPStrategy" -> 4
           [] result.container_type = "kAllocatorAllocate" -> 5
           [] result.container_type \in {"kADTContainer", "kADTDenseContainer"} -> 6
           [] result.container_type \in {"kAbseilContainerSwissMapFlatHash",
                                         "kAbseilContainerSwissMapNodeHash",
                                         "kAbslAllocatorAllocate"} -> 7
           [] result.container_type = "kAbseilContainerBtree" -> 8
           [] result.container_type = "kAbseilContainerInserted" -> 9
           [] result.container_type = "kDefaultStrategy" -> 10
StrategyChosen ==
    /\ pc = "strategy_returned"
    /\ arg.callstack # <<>>
    /\ \A f \in 1..Len(arg.callstack) : arg.callstack[f].function_name # <<>>

\* C24: for a call stack of named frames the strategy returned is the case
\* triggered at the frame nearest the leaf and, within that frame, the
\* earliest in the enumerated order; memprof-inserted only if no earlier
\* case is triggered, default only if no other is, and NotFound only if no
\* case matches.
C24_StrategyFollowsScanOrder ==
    StrategyChosen => ReturnedCase = SelectedCase

\* The variable area of the node of arg: the request size minus the
\* aligned static prefix, in bits.
VariableArea ==
    arg.request_size * 8 -
        RoundUp(arg.pointer_size + 4 * arg.field_type_size +
                    (IF arg.generation_enabled THEN 32 ELSE 0), arg.Alignment)
InternalSlots ==
    { n \in 0..(MaxNodeRequest * 8) :
        VariableArea = (arg.kNodeSlots + 1) * arg.pointer_size + n * arg.slot_type.size }
LeafSlots == { n \in 0..(MaxNodeRequest * 8) : VariableArea = n * arg.slot_type.size }
Subobject(layout, name) ==
    { layout.subobjects[i] : i \in { j \in 1..Len(layout.subobjects) :
                                       layout.subobjects[j].properties.name = name } }
ValuesMultiplicity(layout) ==
    { v.subobjects[1].properties.multiplicity : v \in Subobject(layout, "values") }

\* C25: a node is synthesized with a children array only if the variable
\* area is (kNodeSlots+1) pointers plus n slots for some n >= 0, without
\* one only if it is n slots for some n >= 0, its values array has that n
\* as multiplicity, and InvalidArgument is returned when neither holds.
C25_BtreeNodeSlotsSolveEquation ==
    pc = "btree_returned" =>
        /\ (result.ok /\ Subobject(result.value, "children") # {}) =>
               /\ InternalSlots # {}
               /\ ValuesMultiplicity(result.value) = InternalSlots
        /\ (result.ok /\ Subobject(result.value, "children") = {}) =>
               /\ LeafSlots # {}
               /\ ValuesMultiplicity(result.value) = LeafSlots
        /\ (InternalSlots = {} /\ LeafSlots = {}) =>
               (~result.ok /\ result.status = "InvalidArgument")

\* C26: every call of GetType returns, with a type or an error, whatever
\* the typedefs of the index stand for.
C26_GetTypeTerminates ==
    (pc = "gettype") ~> (pc = "gettype_returned")

\* C27: an Insert or InsertAndGet that returns an error (null tree, another
\* root type name, or a mismatch found while merging counts) leaves the
\* store as it was: the same call stacks, the same tree under each, the
\* same counters on every node.
C27_FailedInsertLeavesStore ==
    [][(inserts' = inserts + 1 /\ lastCall'.status # "Ok") => store' = store]_vars

\* An insert that failed while merging into a stored tree with counts.
C27_Witness ==
    /\ lastCall.op # "none"
    /\ lastCall.path = "merge_error"
    /\ GetTotalAccessCount(lastCall.prev.root) > 0
    /\ GetTotalAccessCount(lastCall.type_tree.root) > 0
    /\ store[lastCall.callstack] = lastCall.prev

\* C28: MergeCounts is all-or-nothing: when it returns an error no counter
\* of the target tree has changed, and when it returns OK every node's
\* counters have grown by those of the corresponding node of the other tree.
C28_MergeCountsAllOrNothing ==
    [][MergeFrom =>
          /\ result' = "InvalidArgument" => CountersOf(tree'.root) = CountersOf(tree.root)
          /\ result' = "Ok" =>
                 CountersOf(tree'.root) = CountersSum(CountersOf(tree.root), CountersOf(other'.root))]_vars

MergedNames == { <<"A">>, <<"std", "::", "V">>, <<"std", "::", "S">> }
FetchDone == pc = "merge" /\ ops = Len(arg.binaries) /\ result = "Ok"

\* C29: after a Fetch over several binaries every type name that GetType
\* finds in the index of one of the binaries alone is found in the merged
\* index, the types of a namespace that an earlier binary also has among
\* them.
C29_MergedIndexHasEveryType ==
    FetchDone =>
        \A b \in 1..Len(arg.binaries), n \in MergedNames :
            DwarfMetadataFetcher_GetType(arg.binaries[b].root_space, n, {}).ok
                => DwarfMetadataFetcher_GetType(index.root_space, n, {}).ok

\* The units of the sections the parser state has, in section order.
RECURSIVE UnitsFrom(_, _)
UnitsFrom(state, k) ==
    IF k > (IF state.has_dwp THEN 4 ELSE 2) THEN <<>>
    ELSE [i \in 1..state.units[Sections[k]] |-> <<Sections[k], i>>] \o UnitsFrom(state, k + 1)
HandedOut == SelectSeq(hist, LAMBDA u : u # nullptr)
IsPrefix(s, t) == Len(s) <= Len(t) /\ SubSeq(t, 1, Len(s)) = s
AllDone == \A w \in Workers : wk[w].pc = "done"

\* C30: with several threads calling getNextDwarfUnit, every unit of the
\* types, the info and (with a dwp context) the dwp types and dwp info
\* sections is returned to exactly one caller, in that order of sections,
\* every call after the last unit returns nullptr, and no thread holds the
\* mutex outside a call.
C30_EachUnitToOneCaller ==
    pc = "units" =>
        /\ IsPrefix(HandedOut, UnitsFrom(arg, 1))
        /\ \A u \in { HandedOut[i] : i \in 1..Len(HandedOut) } :
              Cardinality({ w \in Workers : \E i \in 1..Len(wk[w].got) : wk[w].got[i] = u }) = 1
        /\ \A i \in 1..Len(hist) : hist[i] = nullptr => HandedOut = UnitsFrom(arg, 1)
        /\ \A w \in Workers : mutex = w => wk[w].pc = "locked"
        /\ \A w \in Workers : wk[w].pc = "call" => (mutex = "none" \/ \E o \in Workers : o # w /\ wk[o].pc = "locked")
        /\ AllDone => HandedOut = UnitsFrom(arg, 1)

\* Both threads were given units of a binary with a dwp file, one from each
\* of the four sections, and both have been given nullptr.
C30_Witness ==
    /\ pc = "units" /\ AllDone
    /\ arg.has_dwp
    /\ \A k \in 1..4 : arg.units[Sections[k]] > 0
    /\ \A w \in Workers : Len(wk[w].got) > 1

====
